---- MODULE Spec2Model ----
(***************************************************************************)
(* A model of the request-fulfillment engine of grok2api:                   *)
(*   - TokenPool            (app/services/token/pool.py)                    *)
(*   - pick_token & helpers (app/services/grok/utils/retry.py)              *)
(*   - ConversationManager  (app/services/conversation_manager.py)          *)
(*   - ChatService.completions, the cross-token retry loop                  *)
(*                          (app/services/grok/services/chat.py)            *)
(*                                                                         *)
(* Python's None, "" and empty containers are modelled as follows: an       *)
(* absent token / the result None is the string "None", an absent or empty  *)
(* id (gateway id, upstream conversation id, response id, share link) is    *)
(* the number 0, real ids are numbers >= 1.                                 *)
(***************************************************************************)
EXTENDS Integers, Sequences, FiniteSets, TLC

VARIABLES
    \* ---- TokenPool (pool.py)
    tokens,             \* TokenPool._tokens : token -> [status, quota]
    quota_buckets,      \* TokenPool._quota_buckets : quota -> _TokenBucket.items
    non_empty_quotas,   \* TokenPool._non_empty_quotas
    lastSelect,         \* the last call of select: its exclude set and result
    \* ---- token manager bookkeeping (cooldown deadline, failure count)
    tokenMeta,          \* token -> [cooldown_until, consecutive_failures]
    \* ---- ConversationManager (conversation_manager.py)
    conversations,          \* gateway id -> ConversationContext
    token_conversations,    \* token -> list of gateway ids
    hash_to_conversation,   \* history hash -> gateway id
    \* ---- ChatService.completions: the request in flight and its environment
    rq,                 \* the locals of completions and what it has done so far
    shareTasks,         \* the detached _share() tasks not yet finished
    now,                \* time.time()
    nreq,               \* requests started so far
    lastOk,             \* the last exchange that stored a context: [id, messages]
    \* ---- calls made on one object alone
    lastCall,           \* the last call on the ConversationManager and its return
    ncalls,             \* calls made on the ConversationManager so far
    sp,                 \* the streaming request: timeout wrapper, processor, wrapper
    sv,                 \* the debounced writer of the ConversationManager
    cb,                 \* a circuit breaker and the calls made through it
    px,                 \* the proxy pool and its settings
    sem,                \* the chat semaphore and the upstream calls under it
    fc,                 \* the tool card filter over the chunks of an answer
    hh,                 \* a message list and its history hashes
    ft,                 \* the token filter applied to a text and to its own output
    rt,                 \* one run of retry_async (app/utils/retry.py)
    dc,                 \* the DistributedCache (app/utils/distributed_cache.py)
    ws                  \* the WebSocketPool (app/utils/websocket_pool.py)

poolVars == <<tokens, quota_buckets, non_empty_quotas>>
storeVars == <<conversations, token_conversations, hash_to_conversation>>
chatVars == <<tokenMeta, conversations, token_conversations, hash_to_conversation,
              rq, shareTasks, now, nreq, lastOk>>
unitVars == <<lastCall, ncalls, sp, sv, cb, px, sem, fc, hh, ft, rt, dc, ws>>
vars == <<tokens, quota_buckets, non_empty_quotas, lastSelect, tokenMeta,
          conversations, token_conversations, hash_to_conversation,
          rq, shareTasks, now, nreq, lastOk, lastCall, ncalls, sp, sv, cb, px, sem, fc, hh, ft, rt, dc, ws>>

None == "None"

(***************************************************************************)
(* Bounds of the model.                                                     *)
(***************************************************************************)
\* largest quota a token is given in the pool specification
MaxQuota == 2

Tokens == {"T1", "T2"}
ACTIVE == "ACTIVE"
COOLING == "COOLING"
DISABLED == "DISABLED"
EXPIRED == "EXPIRED"
\* the statuses the pool specification draws from (select tells ACTIVE from the rest)
PoolStatuses == {ACTIVE, COOLING}
\* quota values: -1 is "unknown but available", 0 is exhausted
QuotaVals == (-1) .. MaxQuota
BucketQuotas == 1 .. MaxQuota

TokenInfo(status, quota) == [status |-> status, quota |-> quota]

Range(s) == {s[i] : i \in DOMAIN s}

(***************************************************************************)
(* _TokenBucket: items is a list without duplicates, index its inverse.     *)
(***************************************************************************)
\* _TokenBucket.add
bucket_add(items, token) ==
    IF token \in Range(items) THEN items ELSE Append(items, token)

\* _TokenBucket.remove: swap the last item into the hole, pop the last
bucket_remove(items, token) ==
    IF token \notin Range(items) THEN items
    ELSE LET idx == CHOOSE i \in DOMAIN items : items[i] = token
             last == items[Len(items)]
             popped == SubSeq(items, 1, Len(items) - 1)
         IN  IF idx < Len(items) THEN [popped EXCEPT ![idx] = last] ELSE popped

\* a mutant of pick: the exclude set is not consulted
pick_ignoring_exclude(items, exclude) ==
    IF items = <<>> THEN {None} ELSE Range(items)

\* _TokenBucket.pick: the set of values one call may return.  random.choice
\* may return any item; with an exclude set the random tries and the linear
\* scan return an item outside it, None when there is none.
pick(items, exclude) ==
    IF items = <<>> THEN {None}
    ELSE IF exclude = {} THEN Range(items)
    ELSE IF Range(items) \ exclude # {} THEN Range(items) \ exclude
    ELSE {None}

(***************************************************************************)
(* TokenPool.  A pool value P is [tokens, quota_buckets, non_empty_quotas]. *)
(***************************************************************************)
Pool == [tokens |-> tokens, quota_buckets |-> quota_buckets,
         non_empty_quotas |-> non_empty_quotas]

EmptyPool == [tokens |-> [t \in {} |-> TokenInfo(ACTIVE, 0)],
              quota_buckets |-> [q \in BucketQuotas |-> <<>>],
              non_empty_quotas |-> {}]

\* TokenPool._index_add
index_add(P, token, info) ==
    IF info.status # ACTIVE \/ info.quota <= 0 THEN P
    ELSE [P EXCEPT !.quota_buckets[info.quota] = bucket_add(@, token),
                   !.non_empty_quotas = @ \cup {info.quota}]

\* TokenPool._index_remove
index_remove(P, token, quota, status) ==
    IF status # ACTIVE \/ quota <= 0 THEN P
    ELSE IF P.quota_buckets[quota] = <<>> THEN P
    ELSE LET items == bucket_remove(P.quota_buckets[quota], token)
         IN  [P EXCEPT !.quota_buckets[quota] = items,
                       !.non_empty_quotas =
                           IF items = <<>> THEN @ \ {quota} ELSE @]

\* TokenPool.update_index, called after the token's fields were changed to info
update_index(P, token, info, old_quota, old_status) ==
    index_add(index_remove(P, token, old_quota, old_status), token, info)

\* the token's fields are assigned (by the token manager), then update_index
set_token(P, token, info) ==
    LET old == P.tokens[token]
        P1 == [P EXCEPT !.tokens[token] = info]
    IN  update_index(P1, token, info, old.quota, old.status)

\* TokenPool.add
pool_add(P, token, info) ==
    LET toks == [t \in DOMAIN P.tokens \cup {token} |->
                    IF t = token THEN info ELSE P.tokens[t]]
    IN  index_add([P EXCEPT !.tokens = toks], token, info)

\* TokenPool.remove
pool_remove(P, token) ==
    IF token \in DOMAIN P.tokens
    THEN LET P1 == index_remove(P, token, P.tokens[token].quota,
                                P.tokens[token].status)
         IN  [P1 EXCEPT !.tokens = [t \in DOMAIN P.tokens \ {token} |-> P.tokens[t]]]
    ELSE P

\* sorted(self._non_empty_quotas, reverse=True)
RECURSIVE sorted_desc(_)
sorted_desc(S) ==
    IF S = {} THEN <<>>
    ELSE LET m == CHOOSE x \in S : \A y \in S : y <= x
         IN  <<m>> \o sorted_desc(S \ {m})

\* the loop of TokenPool.select over the quotas still to visit: the set of
\* values the call may return
RECURSIVE select_loop(_, _, _)
select_loop(P, quotas, exclude) ==
    IF quotas = <<>> THEN {None}
    ELSE LET quota == Head(quotas)
             bucket == P.quota_buckets[quota]
             rest == select_loop(P, Tail(quotas), exclude)
         IN  IF bucket = <<>> THEN rest
             ELSE UNION { IF token_str = None THEN rest
                          ELSE IF token_str \notin DOMAIN P.tokens THEN rest
                          ELSE IF P.tokens[token_str].status # ACTIVE
                                  \/ P.tokens[token_str].quota <= 0 THEN rest
                          ELSE {token_str}
                          : token_str \in pick(bucket, exclude) }

\* TokenPool.select
select(P, exclude) ==
    IF P.non_empty_quotas = {} THEN {None}
    ELSE select_loop(P, sorted_desc(P.non_empty_quotas), exclude)

\* no call of select has been recorded
NoSelect == [done |-> FALSE, exclude |-> {}, result |-> None]

SetPool(P) ==
    /\ tokens' = P.tokens
    /\ quota_buckets' = P.quota_buckets
    /\ non_empty_quotas' = P.non_empty_quotas

(***************************************************************************)
(* Configuration values (get_config) as used in this model.  Times are in   *)
(* model ticks.                                                             *)
(***************************************************************************)
\* retry.max_retry, read at chat.py:408
max_token_retries == 2
\* conversation.ttl_seconds (_get_ttl)
ttl_seconds == 1
\* conversation.max_per_token (_get_max_per_token)
max_per_token == 2
\* token.cooldown_429_quota_sec / cooldown_429_empty_sec / fail_threshold
cooldown_429_quota_sec == 1
cooldown_429_empty_sec == 2
fail_threshold == 2
\* EffortType.LOW / EffortType.HIGH: what consume subtracts
EffortCost(effort) == IF effort = "high" THEN 4 ELSE 1

(***************************************************************************)
(* Bounds of the chat specification.                                        *)
(***************************************************************************)
\* requests started in one behaviour of Spec
MaxReq == 2
\* requests started in one behaviour of SpecTurns
MaxTurns == 3
\* the clock stops here
MaxTime == 2
\* the gateway ids of the store calls
MaxStoreIds == 3
\* calls made on the ConversationManager in one behaviour of SpecStore
MaxCalls == 4
\* streaming requests in one behaviour of SpecStream, lines of one stream
MaxStreams == 2
MaxLines == 3
\* the longest wait for the upstream and the longest pause of the consumer
MaxDelay == 2
MaxLag == 1
\* chat.stream_first_timeout, chat.stream_timeout, chat.stream_total_timeout
\* when they are set
FirstTimeout == 2
IdleTimeout == 1
TotalTimeout == 3
\* mutations in one behaviour of SpecSave
MaxMut == 3
\* conversation.save_delay_ms when it is not 0
SaveDelay == 1
\* calls made through the circuit breaker in one behaviour of SpecBreaker
MaxBreakerCalls == 5
\* the last reading of time.monotonic() in SpecBreaker
MaxClock == 2
\* upstream chat calls in one behaviour of SpecSem
MaxSemStreams == 4
\* pieces in one chunk of an answer in SpecCard
MaxChunk == 8
\* messages in one list given to compute_history_hash in SpecHash
MaxMsgs == 4
\* pieces in a token text in SpecFilter
MaxTokenLen == 6
\* the largest max_retry given to retry_async in SpecRetry
MaxRetry == 3
\* public calls on the cache in SpecCache
MaxCacheOps == 5
\* DistributedCache(local_cache_size=...) (33)
local_cache_size == 2
\* WebSocketPool(max_size, max_idle_time, max_lifetime) (46-48)
max_size == 2
max_idle_time == 1
max_lifetime == 2
\* calls of acquire in SpecWsPool
MaxAcquires == 4
\* CircuitBreakerConfig (40-56)
failure_threshold == 2
success_threshold == 2
cooldown_seconds == 1
half_open_max_calls == 2
\* proxy.pool_refresh_sec, at its least value (107-112)
pool_refresh_sec == 1

\* a parameter that was not passed (Python None for an optional id)
Absent == -1

(***************************************************************************)
(* The token manager, as far as completions uses it.  A manager value TM is *)
(* [pool, meta]: the TokenPool and, per token, cooldown_until and           *)
(* consecutive_failures.                                                    *)
(***************************************************************************)
NoMeta == [cooldown_until |-> 0, consecutive_failures |-> 0]

Manager == [pool |-> Pool, meta |-> tokenMeta]

\* token_mgr.get_pool_name_for_token(token): truthy when a pool stores it
get_pool_name_for_token(TM, token) == token \in DOMAIN TM.pool.tokens

\* token_mgr.get_token(pool_name, exclude): the values it may return
get_token(TM, exclude) == select(TM.pool, exclude)

\* the tokens refresh_cooling_tokens recovers: COOLING, deadline passed
Recoverable(TM, t_now) ==
    {t \in DOMAIN TM.pool.tokens :
        /\ TM.pool.tokens[t].status = COOLING
        /\ TM.meta[t].cooldown_until > 0
        /\ TM.meta[t].cooldown_until <= t_now}

RECURSIVE reactivate(_, _)
reactivate(P, ts) ==
    IF ts = {} THEN P
    ELSE LET t == CHOOSE x \in ts : TRUE
         IN  reactivate(set_token(P, t, TokenInfo(ACTIVE, P.tokens[t].quota)),
                        ts \ {t})

\* token_mgr.refresh_cooling_tokens()
refresh_cooling_tokens(TM, t_now) ==
    LET ts == Recoverable(TM, t_now)
    IN  [pool |-> reactivate(TM.pool, ts),
         meta |-> [t \in Tokens |-> IF t \in ts THEN NoMeta ELSE TM.meta[t]]]

\* token_mgr.apply_cooldown(token, status, has_quota): has_quota is "True",
\* "False" or None (then the token's own quota decides)
apply_cooldown(TM, token, status, has_quota, t_now) ==
    IF token \notin DOMAIN TM.pool.tokens THEN TM
    ELSE LET info == TM.pool.tokens[token]
             quota_left == IF has_quota = None THEN info.quota > 0 \/ info.quota = -1
                           ELSE has_quota = "True"
             fails == TM.meta[token].consecutive_failures + 1
         IN  IF status = 429
             THEN [pool |-> set_token(TM.pool, token, TokenInfo(COOLING, info.quota)),
                   meta |-> [TM.meta EXCEPT ![token] =
                       [cooldown_until |-> t_now + (IF quota_left
                                                    THEN cooldown_429_quota_sec
                                                    ELSE cooldown_429_empty_sec),
                        consecutive_failures |-> 0]]]
             ELSE IF fails >= fail_threshold
             THEN [pool |-> set_token(TM.pool, token, TokenInfo(COOLING, info.quota)),
                   meta |-> [TM.meta EXCEPT ![token] =
                       [cooldown_until |-> 0, consecutive_failures |-> 0]]]
             ELSE [TM EXCEPT !.meta[token].consecutive_failures = fails]

\* token_mgr.consume(token, effort): quota clamped at 0
consume(TM, token, effort) ==
    IF token \notin DOMAIN TM.pool.tokens THEN TM
    ELSE LET info == TM.pool.tokens[token]
             left == IF info.quota - EffortCost(effort) < 0 THEN 0
                     ELSE info.quota - EffortCost(effort)
         IN  [TM EXCEPT !.pool = set_token(TM.pool, token,
                                           TokenInfo(info.status, left))]

(***************************************************************************)
(* Messages and the history hash.  A message is [role, content]; the hash   *)
(* is modelled by its preimage, the list of "role:content" lines (SHA-256   *)
(* taken as injective), "" by the empty list.                               *)
(***************************************************************************)
Msg(role, content) == [role |-> role, content |-> content]
Sys(text) == Msg("system", text)
Usr(text) == Msg("user", text)
Ast(text) == Msg("assistant", text)

\* the message lists a client may send
MsgLists ==
    { <<Usr("u1")>>,
      <<Sys("s"), Usr("u1")>>,
      <<Usr("u1"), Ast("a1"), Usr("u2")>>,
      <<Usr("u1"), Ast("a1"), Usr("u2"), Ast("a2"), Usr("u3")>> }

\* the first two turns of a conversation
TwoTurns == { <<Usr("u1")>>, <<Usr("u1"), Ast("a1"), Usr("u2")>> }

RECURSIVE key_lines(_)
\* f"{role}:{content}" for each message of the list
key_lines(msgs) ==
    IF msgs = <<>> THEN <<>>
    ELSE <<<<Head(msgs).role, Head(msgs).content>>>> \o key_lines(Tail(msgs))

\* a mutant of compute_history_hash: the first user message is left out
compute_history_hash_drops_first(messages, exclude_last_user) ==
    IF messages = <<>> THEN <<>>
    ELSE LET system_parts ==
                 key_lines(SelectSeq(messages, LAMBDA msg : msg.role = "system"))
             all_user_parts ==
                 key_lines(SelectSeq(messages, LAMBDA msg : msg.role = "user"))
             has_assistant == \E i \in DOMAIN messages : messages[i].role = "assistant"
             user_parts ==
                 IF exclude_last_user /\ has_assistant /\ all_user_parts # <<>>
                 THEN Tail(all_user_parts)
                 ELSE all_user_parts
         IN  system_parts \o user_parts

\* ConversationManager.compute_history_hash
compute_history_hash(messages, exclude_last_user) ==
    IF messages = <<>> THEN <<>>
    ELSE LET system_parts ==
                 key_lines(SelectSeq(messages, LAMBDA msg : msg.role = "system"))
             all_user_parts ==
                 key_lines(SelectSeq(messages, LAMBDA msg : msg.role = "user"))
             has_assistant == \E i \in DOMAIN messages : messages[i].role = "assistant"
             user_parts ==
                 IF exclude_last_user /\ has_assistant /\ all_user_parts # <<>>
                 THEN SubSeq(all_user_parts, 1, Len(all_user_parts) - 1)
                 ELSE all_user_parts
         IN  system_parts \o user_parts

(***************************************************************************)
(* ConversationManager.  A store value S is                                 *)
(* [conversations, token_conversations, hash_to_conversation].              *)
(***************************************************************************)
NoCtx == [none |-> TRUE]

Store == [conversations |-> conversations,
          token_conversations |-> token_conversations,
          hash_to_conversation |-> hash_to_conversation]

EmptyStore == [conversations |-> [i \in {} |-> NoCtx],
               token_conversations |-> [t \in Tokens |-> <<>>],
               hash_to_conversation |-> [h \in {} |-> 0]]

\* dict.pop(key, None)
Without(f, key) == [k \in DOMAIN f \ {key} |-> f[k]]
\* dict[key] = value
With(f, key, value) == [k \in DOMAIN f \cup {key} |-> IF k = key THEN value ELSE f[k]]

\* list.remove(x): the first occurrence, nothing when absent (ValueError caught)
RemoveFirst(seq, x) ==
    IF x \notin Range(seq) THEN seq
    ELSE LET i == CHOOSE k \in DOMAIN seq :
                      seq[k] = x /\ \A j \in 1 .. (k - 1) : seq[j] # x
         IN  SubSeq(seq, 1, i - 1) \o SubSeq(seq, i + 1, Len(seq))

\* ConversationManager.delete_conversation
delete_conversation(S, openai_conv_id) ==
    IF openai_conv_id \notin DOMAIN S.conversations THEN S
    ELSE LET context == S.conversations[openai_conv_id]
         IN  [conversations |-> Without(S.conversations, openai_conv_id),
              hash_to_conversation |->
                  IF context.history_hash # <<>>
                  THEN Without(S.hash_to_conversation, context.history_hash)
                  ELSE S.hash_to_conversation,
              token_conversations |->
                  [S.token_conversations EXCEPT ![context.token] =
                      RemoveFirst(@, openai_conv_id)]]

\* ConversationManager._limit_token_conversations
limit_token_conversations(S, token) ==
    LET conv_ids == S.token_conversations[token]
        to_delete == Len(conv_ids) - max_per_token
        doomed == {conv_ids[i] : i \in 1 .. to_delete} \cap DOMAIN S.conversations
        hashes == {S.conversations[c].history_hash : c \in doomed} \ {<<>>}
    IN  IF Len(conv_ids) <= max_per_token THEN S
        ELSE [conversations |->
                  [c \in DOMAIN S.conversations \ doomed |-> S.conversations[c]],
              hash_to_conversation |->
                  [h \in DOMAIN S.hash_to_conversation \ hashes |->
                      S.hash_to_conversation[h]],
              token_conversations |->
                  [S.token_conversations EXCEPT ![token] =
                      SubSeq(conv_ids, to_delete + 1, Len(conv_ids))]]

\* ConversationManager.create_conversation (share_link_id defaults to "")
create_conversation(S, token, grok_conversation_id, grok_response_id, messages, openai_conv_id, t_now) ==
    LET history_hash == IF messages # <<>>
                        THEN compute_history_hash(messages, FALSE) ELSE <<>>
        context == [conversation_id |-> grok_conversation_id,
                    last_response_id |-> grok_response_id,
                    created_at |-> t_now,
                    updated_at |-> t_now,
                    message_count |-> 1,
                    token |-> token,
                    history_hash |-> history_hash,
                    share_link_id |-> 0]
        S1 == [conversations |-> With(S.conversations, openai_conv_id, context),
               hash_to_conversation |->
                   IF history_hash # <<>>
                   THEN With(S.hash_to_conversation, history_hash, openai_conv_id)
                   ELSE S.hash_to_conversation,
               token_conversations |->
                   [S.token_conversations EXCEPT ![token] = Append(@, openai_conv_id)]]
    IN  limit_token_conversations(S1, token)

\* whether get_conversation finds the context expired
Expired(context, t_now) == t_now - context.updated_at > ttl_seconds

\* ConversationManager.get_conversation: [store, context]
get_conversation(S, openai_conv_id, t_now) ==
    IF openai_conv_id \notin DOMAIN S.conversations
    THEN [store |-> S, context |-> NoCtx]
    ELSE IF Expired(S.conversations[openai_conv_id], t_now)
    THEN [store |-> delete_conversation(S, openai_conv_id), context |-> NoCtx]
    ELSE [store |-> S, context |-> S.conversations[openai_conv_id]]

\* ConversationManager.find_conversation_by_history: [store, conv_id], 0 for None
find_conversation_by_history(S, messages, t_now) ==
    LET history_hash == compute_history_hash(messages, TRUE)
    IN  IF messages = <<>> \/ history_hash = <<>>
           \/ history_hash \notin DOMAIN S.hash_to_conversation
        THEN [store |-> S, conv_id |-> 0]
        ELSE LET conv_id == S.hash_to_conversation[history_hash]
                 got == get_conversation(S, conv_id, t_now)
             IN  IF got.context # NoCtx
                 THEN [store |-> got.store, conv_id |-> conv_id]
                 ELSE [store |-> [got.store EXCEPT !.hash_to_conversation =
                                      Without(@, history_hash)],
                       conv_id |-> 0]

\* the body of ConversationManager.update_conversation; messages <<>>,
\* share_link_id Absent, grok_conversation_id Absent and token None stand for
\* "not passed"
update_context(S, openai_conv_id, grok_response_id, messages, share_link_id, grok_conversation_id, token, increment_message, t_now) ==
    IF openai_conv_id \notin DOMAIN S.conversations THEN S
    ELSE LET old == S.conversations[openai_conv_id]
             new_hash == compute_history_hash(messages, FALSE)
             rehash == messages # <<>> /\ new_hash # <<>> /\ new_hash # old.history_hash
             context ==
                 [conversation_id |-> IF grok_conversation_id # Absent
                                      THEN grok_conversation_id
                                      ELSE old.conversation_id,
                  last_response_id |-> IF grok_response_id # 0
                                       THEN grok_response_id
                                       ELSE old.last_response_id,
                  created_at |-> old.created_at,
                  updated_at |-> t_now,
                  message_count |-> IF increment_message
                                    THEN old.message_count + 1
                                    ELSE old.message_count,
                  token |-> IF token # None THEN token ELSE old.token,
                  history_hash |-> IF rehash THEN new_hash ELSE old.history_hash,
                  share_link_id |-> IF share_link_id # Absent
                                    THEN share_link_id
                                    ELSE old.share_link_id]
             popped == IF rehash /\ old.history_hash # <<>>
                       THEN Without(S.hash_to_conversation, old.history_hash)
                       ELSE S.hash_to_conversation
         IN  [conversations |-> [S.conversations EXCEPT ![openai_conv_id] = context],
              hash_to_conversation |->
                  IF rehash THEN With(popped, new_hash, openai_conv_id) ELSE popped,
              token_conversations |-> S.token_conversations]

\* a mutant of update_conversation: increment_message is not consulted
update_conversation_always_increment(S, openai_conv_id, grok_response_id, messages, share_link_id, grok_conversation_id, token, increment_message, t_now) ==
    update_context(S, openai_conv_id, grok_response_id, messages,
                   share_link_id, grok_conversation_id, token, TRUE, t_now)

\* ConversationManager.update_conversation
update_conversation(S, openai_conv_id, grok_response_id, messages, share_link_id, grok_conversation_id, token, increment_message, t_now) ==
    update_context(S, openai_conv_id, grok_response_id, messages,
                   share_link_id, grok_conversation_id, token,
                   increment_message, t_now)

\* the ids _cleanup_expired deletes
ExpiredIds(S, t_now) ==
    {c \in DOMAIN S.conversations : Expired(S.conversations[c], t_now)}

RECURSIVE delete_all(_, _)
delete_all(S, ids) ==
    IF ids = {} THEN S
    ELSE LET c == CHOOSE x \in ids : TRUE
         IN  delete_all(delete_conversation(S, c), ids \ {c})

\* ConversationManager._cleanup_expired
cleanup_expired(S, t_now) == delete_all(S, ExpiredIds(S, t_now))

\* Ids (uuid4 of generate_id, the ids the upstream hands out) are unique: the
\* k-th id made for the n-th request
IdsPerRequest == 16
NewId(n, k) == n * IdsPerRequest + k
(***************************************************************************)
(* Upstream errors and the retry helpers (retry.py).  An UpstreamException  *)
(* is [status, remaining, error_code]: details["status"], the number under  *)
(* remainingTokens / remainingQueries in details or in the JSON body (<<>>  *)
(* when there is none, <<n>> otherwise) and details["error_code"].          *)
(***************************************************************************)
UpstreamException(status, remaining) ==
    [status |-> status, remaining |-> remaining, error_code |-> None]

NoError == [status |-> 0, remaining |-> <<>>, error_code |-> None]

\* an upstream call that was answered without an error
Ok == [status |-> 200, remaining |-> <<>>, error_code |-> None]

\* AppException(status_code=429, code="rate_limit_exceeded"), raised when no
\* token is left
NoTokensError == [status |-> 429, remaining |-> <<>>,
                  error_code |-> "rate_limit_exceeded"]

\* the failures an upstream call is answered with in this model
Errors == { UpstreamException(429, <<5>>), UpstreamException(401, <<>>),
            UpstreamException(500, <<>>) }

\* extract_status_code
extract_status_code(error) == error.status

\* rate_limit_has_quota: "True", "False" or None
rate_limit_has_quota(error) ==
    IF error.remaining = <<>> THEN None
    ELSE IF error.remaining[1] > 0 \/ error.remaining[1] = -1 THEN "True"
    ELSE "False"

\* rate_limited
rate_limited(error) ==
    extract_status_code(error) = 429 \/ error.error_code = "rate_limit_exceeded"

\* a mutant of pick_token: the tried set is not consulted
pick_token_ignoring_tried(TM, tried, preferred, t_now) ==
    IF preferred # None /\ get_pool_name_for_token(TM, preferred)
    THEN {[token |-> preferred, mgr |-> TM]}
    ELSE UNION { IF token # None
                 THEN {[token |-> token, mgr |-> TM]}
                 ELSE LET TM2 == refresh_cooling_tokens(TM, t_now)
                      IN  IF Recoverable(TM, t_now) # {}
                          THEN {[token |-> t2, mgr |-> TM2] : t2 \in get_token(TM2, {})}
                          ELSE {[token |-> None, mgr |-> TM2]}
                 : token \in get_token(TM, {}) }

\* pick_token: the set of [token, mgr] one call may end with, mgr the token
\* manager as the call leaves it
pick_token(TM, tried, preferred, t_now) ==
    IF preferred # None /\ preferred \notin tried
       /\ get_pool_name_for_token(TM, preferred)
    THEN {[token |-> preferred, mgr |-> TM]}
    ELSE UNION { IF token # None \/ tried # {}
                 THEN {[token |-> token, mgr |-> TM]}
                 ELSE LET TM2 == refresh_cooling_tokens(TM, t_now)
                      IN  IF Recoverable(TM, t_now) # {}
                          THEN {[token |-> t2, mgr |-> TM2] : t2 \in get_token(TM2, {})}
                          ELSE {[token |-> None, mgr |-> TM2]}
                 : token \in get_token(TM, tried) }


(***************************************************************************)
(* The streaming pipeline of one request: _with_stream_timeouts             *)
(* (process.py), StreamProcessor.process and stream_wrapper (chat.py).      *)
(***************************************************************************)
\* ---- an upstream line, as process() reads it
\* parse: "none" when _normalize_line returns None, "bad" when orjson.loads
\* fails, "ok" otherwise.  token: None when the key is absent, "" for an empty
\* token, "tagged" for a token that carries a filtered tag, "text" otherwise.
Line(parse, isThinking, responseId, conversationId, img, mr, card, token) ==
    [parse |-> parse, isThinking |-> isThinking, responseId |-> responseId,
     conversationId |-> conversationId, img |-> img, mr |-> mr, card |-> card,
     token |-> token]

\* the ids the upstream gives the n-th stream
UpstreamResp(n) == NewId(n, 8)
UpstreamConv(n) == NewId(n, 9)

BlankLine == Line("none", FALSE, 0, 0, FALSE, FALSE, FALSE, None)
BadLine == Line("bad", FALSE, 0, 0, FALSE, FALSE, FALSE, None)
ThinkLine == Line("ok", TRUE, 0, 0, FALSE, FALSE, FALSE, "text")
TokenLine(n) == Line("ok", FALSE, UpstreamResp(n), UpstreamConv(n), FALSE, FALSE, FALSE, "text")
TaggedTokenLine == Line("ok", TRUE, 0, 0, FALSE, FALSE, FALSE, "tagged")
ImageLine == Line("ok", FALSE, 0, 0, TRUE, FALSE, FALSE, None)
ModelLine(n) == Line("ok", FALSE, UpstreamResp(n), 0, FALSE, TRUE, FALSE, None)
CardLine == Line("ok", FALSE, 0, 0, FALSE, FALSE, TRUE, None)

Lines(n) == {BlankLine, BadLine, ThinkLine, TokenLine(n), TaggedTokenLine,
             ImageLine, ModelLine(n), CardLine}

\* ---- the frames process() yields
Frame(kind, content) == [kind |-> kind, content |-> content]
RoleFrame == Frame("role", "")
FinishFrame == Frame("finish", "")
DoneFrame == Frame("done", "[DONE]")
ThinkOpen == Frame("content", "<think>\n")
ThinkClose == Frame("content", "\n</think>\n")
ThinkCloseAtEnd == Frame("content", "</think>\n")

\* StreamProcessor._filter_token with tool cards off: a token that carries a
\* filtered tag is dropped whole
filter_token(token) == IF token = "tagged" THEN "" ELSE token

\* ---- the processor's fields (StreamProcessor.__init__)
NewProcessor(show_think) ==
    [show_think |-> show_think, role_sent |-> FALSE, think_opened |-> FALSE,
     image_think_active |-> FALSE, response_id |-> 0,
     grok_conversation_id |-> 0, out |-> <<>>]

Emit(p, frames) == [p EXCEPT !.out = @ \o frames]

\* a mutant of read_ids: role_sent is not consulted
read_ids_role_every_line(p, line) ==
    LET p1 == [p EXCEPT !.response_id = IF line.responseId # 0
                                        THEN line.responseId ELSE @,
                        !.grok_conversation_id = IF line.conversationId # 0
                                                 THEN line.conversationId ELSE @]
    IN  [Emit(p1, <<RoleFrame>>) EXCEPT !.role_sent = TRUE]

\* chat.py:789-809: ids are read from the line, the role chunk is sent
read_ids(p, line) ==
    LET p1 == [p EXCEPT !.response_id = IF line.responseId # 0
                                        THEN line.responseId ELSE @,
                        !.grok_conversation_id = IF line.conversationId # 0
                                                 THEN line.conversationId ELSE @]
    IN  IF p1.role_sent THEN p1
        ELSE [Emit(p1, <<RoleFrame>>) EXCEPT !.role_sent = TRUE]

\* chat.py:811-821: streamingImageGenerationResponse
image_progress(p) ==
    IF ~p.show_think THEN p
    ELSE LET p1 == [p EXCEPT !.image_think_active = TRUE]
             p2 == IF p1.think_opened THEN p1
                   ELSE [Emit(p1, <<ThinkOpen>>) EXCEPT !.think_opened = TRUE]
         IN  Emit(p2, <<Frame("content", "progress")>>)

\* chat.py:823-843: modelResponse, with one generated image
model_response(p) ==
    LET p1 == IF p.image_think_active /\ p.think_opened
              THEN [Emit(p, <<ThinkClose>>) EXCEPT !.think_opened = FALSE]
              ELSE p
    IN  Emit([p1 EXCEPT !.image_think_active = FALSE],
             <<Frame("content", "rendered")>>)

\* chat.py:845-862: cardAttachment with an image
card_attachment(p) == Emit(p, <<Frame("content", "card")>>)

\* chat.py:864-881: token
token_delta(p, line) ==
    LET filtered == filter_token(line.token)
        in_think == line.isThinking \/ p.image_think_active
    IN  IF line.token = "" \/ filtered = "" THEN p
        ELSE IF in_think
        THEN IF ~p.show_think THEN p
             ELSE IF ~p.think_opened
             THEN Emit([Emit(p, <<ThinkOpen>>) EXCEPT !.think_opened = TRUE],
                       <<Frame("content", filtered)>>)
             ELSE Emit(p, <<Frame("content", filtered)>>)
        ELSE IF p.think_opened
        THEN Emit([Emit(p, <<ThinkClose>>) EXCEPT !.think_opened = FALSE],
                  <<Frame("content", filtered)>>)
        ELSE Emit(p, <<Frame("content", filtered)>>)

\* chat.py:781-881: the body of the loop of process() for one line
process_line(p, line) ==
    IF line.parse # "ok" THEN p
    ELSE LET p1 == read_ids(p, line)
         IN  IF line.img THEN image_progress(p1)
             ELSE IF line.mr THEN model_response(p1)
             ELSE IF line.card THEN card_attachment(p1)
             ELSE IF line.token # None THEN token_delta(p1, line)
             ELSE p1

\* a mutant of process_end: the closing tag is sent whatever think_opened is
process_end_always_closes(p) ==
    Emit(p, <<ThinkCloseAtEnd, FinishFrame, DoneFrame>>)

\* chat.py:883-886: the upstream has ended
process_end(p) ==
    Emit(IF p.think_opened THEN Emit(p, <<ThinkCloseAtEnd>>) ELSE p,
         <<FinishFrame, DoneFrame>>)

\* ---- _with_stream_timeouts (process.py:122-209)
\* the wrapper's locals: is_first, the time since start_time, whether
\* aclose() was called on the upstream iterator, and, when a timeout is
\* raised, the time since the last line was yielded (since the start when
\* there was none)
NewWrapper == [is_first |-> TRUE, elapsed |-> 0, closed |-> FALSE, since |-> 0]

Timeouts(first_timeout, idle_timeout, total_timeout) ==
    [first_timeout |-> first_timeout, idle_timeout |-> idle_timeout,
     total_timeout |-> total_timeout]

\* process.py:152-156: stage_timeout, 0 for None
stage_timeout(cfg, w) ==
    IF w.is_first /\ cfg.first_timeout > 0 THEN cfg.first_timeout
    ELSE IF cfg.idle_timeout > 0 THEN cfg.idle_timeout
    ELSE 0

\* process.py:158-173: [effective_timeout, total_is_limit], at time t
effective_timeout(cfg, w, t) ==
    LET stage == stage_timeout(cfg, w)
        total_remaining == cfg.total_timeout - t
    IN  IF cfg.total_timeout > 0 /\ (stage <= 0 \/ total_remaining < stage)
        THEN [timeout |-> total_remaining, total_is_limit |-> TRUE]
        ELSE [timeout |-> stage, total_is_limit |-> FALSE]

\* One __anext__ of the wrapper.  The consumer asks lag after the last item,
\* the upstream answers after delay with event: "item", "StopAsyncIteration",
\* "RequestsError", or the task is cancelled ("CancelledError").
\* Returns the wrapper and what the consumer gets: the event or a timeout.
anext(cfg, w, lag, delay, event) ==
    LET t == w.elapsed + lag
        eff == effective_timeout(cfg, w, t)
    IN  IF cfg.first_timeout <= 0 /\ cfg.idle_timeout <= 0 /\ cfg.total_timeout <= 0
        THEN [w |-> [w EXCEPT !.elapsed = t + delay,
                              !.is_first = IF event = "item" THEN FALSE ELSE @],
              raised |-> event]
        ELSE IF cfg.total_timeout > 0 /\ cfg.total_timeout - t <= 0
        THEN [w |-> [w EXCEPT !.elapsed = t, !.closed = TRUE, !.since = lag],
              raised |-> "StreamTotalTimeoutError"]
        ELSE IF eff.timeout > 0 /\ delay >= eff.timeout
        THEN [w |-> [w EXCEPT !.elapsed = t + eff.timeout, !.closed = TRUE,
                              !.since = lag + eff.timeout],
              raised |-> IF eff.total_is_limit /\ cfg.total_timeout > 0
                         THEN "StreamTotalTimeoutError"
                         ELSE IF w.is_first /\ cfg.first_timeout > 0
                         THEN "StreamFirstTimeoutError"
                         ELSE "StreamIdleTimeoutError"]
        ELSE [w |-> [w EXCEPT !.elapsed = t + delay,
                              !.is_first = IF event = "item" THEN FALSE ELSE @,
                              !.closed = IF event = "CancelledError" THEN TRUE ELSE @],
              raised |-> event]

\* ---- StreamProcessor.process, its except clauses (chat.py:887-938)
StreamError(status, type) == [status |-> status, type |-> type]
NoStreamError == StreamError(0, "none")

TimeoutErrors == {"StreamFirstTimeoutError", "StreamIdleTimeoutError",
                  "StreamTotalTimeoutError"}

\* a mutant of except_clause: every timeout is reported as an idle timeout
except_clause_all_idle(raised) ==
    IF raised \in TimeoutErrors THEN StreamError(504, "stream_idle_timeout")
    ELSE IF raised = "RequestsError" THEN StreamError(502, "http2_stream_error")
    ELSE NoStreamError

\* what process() raises for what it has caught; CancelledError is logged and
\* nothing is raised
except_clause(raised) ==
    IF raised = "StreamFirstTimeoutError" THEN StreamError(504, "stream_first_timeout")
    ELSE IF raised = "StreamTotalTimeoutError" THEN StreamError(504, "stream_total_timeout")
    ELSE IF raised = "StreamIdleTimeoutError" THEN StreamError(504, "stream_idle_timeout")
    ELSE IF raised = "RequestsError" THEN StreamError(502, "http2_stream_error")
    ELSE NoStreamError

\* ---- one streaming request
IdleStream == [pc |-> "idle", n |-> 0, cfg |-> Timeouts(0, 0, 0), w |-> NewWrapper,
               p |-> NewProcessor(FALSE), token |-> None, openai_conv_id |-> 0,
               context |-> NoCtx, messages |-> <<>>, nlines |-> 0,
               parsed |-> FALSE,
               raised |-> "none", error |-> NoStreamError, success |-> FALSE]

(***************************************************************************)
(* The debounced writer of the ConversationManager                         *)
(* (conversation_manager.py:305-361).                                      *)
(***************************************************************************)
\* what conversations.json holds: the conversations of a snapshot, and how
\* many mutations the snapshot has seen
Snapshot(data, n) == [data |-> data, n |-> n]
EmptyFile == Snapshot([i \in {} |-> NoCtx], 0)

\* a task made by asyncio.create_task: _flush_loop() or _save_async()
Task(kind) == [kind |-> kind, pc |-> "start", snap |-> EmptyFile]

\* the caller of shutdown()
NoShutdown == [pc |-> "idle", task |-> 0, snap |-> EmptyFile, n |-> 0]

\* the fields of __init__ (38-44), the configured conversation.save_delay_ms,
\* the file, the counters of mutations, sleeps and writes, and whether a
\* mutation has come while a write was in progress
NewSaver == [config |-> SaveDelay, save_delay |-> SaveDelay, delays |-> {},
             dirty |-> FALSE, save_task |-> 0, tasks |-> <<>>, lock |-> 0,
             disk |-> EmptyFile, nmut |-> 0, sleeps |-> 0, writes |-> 0,
             during |-> FALSE, shutdown |-> NoShutdown]

\* Task.done() of self._save_task
Running(s) == s.save_task # 0 /\ s.tasks[s.save_task].pc # "done"

\* a mutant of schedule_save: a task is made whether one is running or not
schedule_save_always(s) ==
    LET s1 == [s EXCEPT !.save_delay = s.config, !.dirty = TRUE,
                        !.delays = @ \cup {s.config}]
    IN  [s1 EXCEPT !.tasks = Append(@, Task(IF s.config = 0 THEN "save_async"
                                            ELSE "flush_loop")),
                   !.save_task = Len(s.tasks) + 1]

\* ConversationManager._schedule_save (316-333)
schedule_save(s) ==
    LET s1 == [s EXCEPT !.save_delay = s.config, !.dirty = TRUE,
                        !.delays = @ \cup {s.config}]
    IN  IF Running(s) THEN s1
        ELSE [s1 EXCEPT !.tasks = Append(@, Task(IF s.config = 0 THEN "save_async"
                                                 ELSE "flush_loop")),
                        !.save_task = Len(s.tasks) + 1]

\* _save_async (305-314) entered by task i: with the lock free the snapshot is
\* taken and storage.save_json awaited, otherwise the task waits for the lock
enter_save(s, i, data) ==
    IF s.lock = 0
    THEN [s EXCEPT !.lock = i, !.tasks[i].pc = "write",
                   !.tasks[i].snap = Snapshot(data, s.nmut)]
    ELSE [s EXCEPT !.tasks[i].pc = "lock"]

\* storage.save_json has returned for task i: the lock is released
leave_save(s, i) ==
    [s EXCEPT !.disk = s.tasks[i].snap, !.lock = 0, !.writes = @ + 1]

\* the finally block of _flush_loop (343-346)
flush_loop_finally(s, i) ==
    LET s1 == [s EXCEPT !.tasks[i].pc = "done", !.save_task = 0]
    IN  IF s1.dirty THEN schedule_save(s1) ELSE s1

\* one step of task i, between two suspensions
task_step(s, i, data) ==
    LET t == s.tasks[i]
    IN  IF t.pc = "start"
        THEN IF t.kind = "flush_loop" THEN [s EXCEPT !.tasks[i].pc = "sleep"]
             ELSE enter_save(s, i, data)
        ELSE IF t.pc = "sleep"
        THEN LET s1 == [s EXCEPT !.sleeps = @ + 1]
             IN  IF ~s1.dirty THEN flush_loop_finally(s1, i)
                 ELSE enter_save([s1 EXCEPT !.dirty = FALSE], i, data)
        ELSE IF t.pc = "lock" THEN enter_save(s, i, data)
        ELSE LET s1 == leave_save(s, i)
             IN  IF t.kind = "flush_loop" THEN [s1 EXCEPT !.tasks[i].pc = "sleep"]
                 ELSE [s1 EXCEPT !.tasks[i].pc = "done"]

\* whether task i can take a step
task_enabled(s, i) ==
    /\ s.tasks[i].pc # "done"
    /\ s.tasks[i].pc = "lock" => s.lock = 0

\* a mutant of flush_rest: flush() returns without a write of its own
flush_rest_no_write(s, data) ==
    [s EXCEPT !.shutdown.pc = "returned"]

\* flush() (348-357) after the wait for the task: the caller is "lock holder" -1
flush_rest(s, data) ==
    IF ~s.dirty THEN [s EXCEPT !.shutdown.pc = "returned"]
    ELSE IF s.lock = 0
    THEN [s EXCEPT !.dirty = FALSE, !.lock = -1, !.shutdown.pc = "write",
                   !.shutdown.snap = Snapshot(data, s.nmut)]
    ELSE [s EXCEPT !.dirty = FALSE, !.shutdown.pc = "lock"]

\* shutdown() is called (359-361): flush() waits for the task if it runs
shutdown_call(s, data) ==
    LET s1 == [s EXCEPT !.shutdown.n = s.nmut, !.shutdown.task = s.save_task]
    IN  IF Running(s) THEN [s1 EXCEPT !.shutdown.pc = "await_task"]
        ELSE flush_rest(s1, data)

\* one step of the caller of shutdown()
shutdown_step(s, data) ==
    IF s.shutdown.pc = "await_task" THEN flush_rest(s, data)
    ELSE IF s.shutdown.pc = "lock"
    THEN [s EXCEPT !.lock = -1, !.shutdown.pc = "write",
                   !.shutdown.snap = Snapshot(data, s.nmut)]
    ELSE [s EXCEPT !.disk = s.shutdown.snap, !.lock = 0, !.writes = @ + 1,
                   !.shutdown.pc = "returned"]

shutdown_enabled(s) ==
    \/ s.shutdown.pc = "await_task" /\ s.tasks[s.shutdown.task].pc = "done"
    \/ s.shutdown.pc = "lock" /\ s.lock = 0
    \/ s.shutdown.pc = "write"

(***************************************************************************)
(* The circuit breaker (app/utils/circuit_breaker.py).  The lock of the    *)
(* breaker is never held across a suspension, so the admission of a call   *)
(* (129-153) and _on_success / _on_failure (181-224) are single steps.     *)
(***************************************************************************)
\* CircuitBreakerOpenError (75-84)
CircuitBreakerOpenError == "circuit_breaker_open"

\* a call of CircuitBreaker.call: the state of the breaker that admitted it,
\* the HALF_OPEN period it was admitted in (0 when admitted while CLOSED),
\* and how it stands: "flying", "ok", "error", "timeout", or rejected
BreakerCallRec(admitted, period, status) ==
    [admitted |-> admitted, period |-> period, status |-> status]

\* CircuitBreakerConfig (40-56), without the call timeout
BreakerConfig(fmax, smax, cool, hmax) ==
    [failure_threshold |-> fmax, success_threshold |-> smax,
     cooldown_seconds |-> cool, half_open_max_calls |-> hmax]

\* the configuration of SpecBreaker
DefaultBreakerConfig ==
    BreakerConfig(failure_threshold, success_threshold, cooldown_seconds,
                  half_open_max_calls)

\* the configurations a breaker is built with in SpecBreakerConfig
BreakerConfigs ==
    {BreakerConfig(fmax, smax, cooldown_seconds, hmax) :
        fmax \in 1 .. failure_threshold, smax \in 1 .. success_threshold + 1,
        hmax \in 1 .. half_open_max_calls}

\* CircuitBreaker.__init__ (90-106) with the statistics (60-72), a clock, the
\* calls made so far, the number of HALF_OPEN periods so far, the failures
\* completed since the last completed success, and the last completed call
NewBreaker ==
    [config |-> DefaultBreakerConfig, state |-> "closed", failure_count |-> 0, success_count |-> 0,
     last_state_change_time |-> 0, half_open_calls |-> 0,
     total_calls |-> 0, total_failures |-> 0, total_successes |-> 0,
     total_timeouts |-> 0, total_rejected |-> 0,
     clock |-> 0, calls |-> <<>>, period |-> 0, streak |-> 0, last |-> 0]

\* _should_attempt_reset (226-229)
should_attempt_reset(b) ==
    b.clock - b.last_state_change_time >= b.config.cooldown_seconds

\* _transition_to_closed (231-238)
transition_to_closed(b) ==
    [b EXCEPT !.state = "closed", !.failure_count = 0, !.success_count = 0,
              !.last_state_change_time = b.clock, !.half_open_calls = 0]

\* _transition_to_open (240-247)
transition_to_open(b) ==
    [b EXCEPT !.state = "open", !.failure_count = 0, !.success_count = 0,
              !.last_state_change_time = b.clock, !.half_open_calls = 0]

\* _transition_to_half_open (249-256); a new HALF_OPEN period begins
transition_to_half_open(b) ==
    [b EXCEPT !.state = "half_open", !.failure_count = 0, !.success_count = 0,
              !.last_state_change_time = b.clock, !.half_open_calls = 0,
              !.period = @ + 1]

\* the call is rejected: CircuitBreakerOpenError is raised under the lock
breaker_reject(b) ==
    [b EXCEPT !.total_rejected = @ + 1,
              !.calls = Append(@, BreakerCallRec(b.state, b.period,
                                                 CircuitBreakerOpenError))]

\* the call leaves the lock and func(*args) is awaited
breaker_admit(b) ==
    [b EXCEPT !.calls = Append(@, BreakerCallRec(b.state, IF b.state = "closed"
                                                          THEN 0 ELSE b.period,
                                                 "flying"))]

\* CircuitBreaker.call, the part under the lock (129-153)
breaker_call(b) ==
    LET b1 == [b EXCEPT !.total_calls = @ + 1]
    IN  IF b1.state = "open"
        THEN IF should_attempt_reset(b1)
             THEN breaker_admit(transition_to_half_open(b1))
             ELSE breaker_reject(b1)
        ELSE IF b1.state = "half_open"
        THEN IF b1.half_open_calls >= b.config.half_open_max_calls
             THEN breaker_reject(b1)
             ELSE breaker_admit([b1 EXCEPT !.half_open_calls = @ + 1])
        ELSE breaker_admit(b1)

\* a mutant of on_success: a success in CLOSED leaves the failure count
on_success_keeps_count(b) ==
    LET b1 == [b EXCEPT !.total_successes = @ + 1]
    IN  IF b1.state = "half_open"
        THEN LET b2 == [b1 EXCEPT !.success_count = @ + 1]
             IN  IF b2.success_count >= b.config.success_threshold
                 THEN transition_to_closed(b2) ELSE b2
        ELSE b1

\* _on_success (181-199)
on_success(b) ==
    LET b1 == [b EXCEPT !.total_successes = @ + 1]
    IN  IF b1.state = "half_open"
        THEN LET b2 == [b1 EXCEPT !.success_count = @ + 1]
             IN  IF b2.success_count >= b.config.success_threshold
                 THEN transition_to_closed(b2) ELSE b2
        ELSE IF b1.state = "closed" THEN [b1 EXCEPT !.failure_count = 0]
        ELSE b1

\* _on_failure (201-224); last_failure_time is read by get_stats only
on_failure(b) ==
    LET b1 == [b EXCEPT !.total_failures = @ + 1, !.failure_count = @ + 1]
    IN  IF b1.state = "half_open" THEN transition_to_open(b1)
        ELSE IF b1.state = "closed"
        THEN IF b1.failure_count >= b.config.failure_threshold
             THEN transition_to_open(b1) ELSE b1
        ELSE b1

\* CircuitBreaker.call after the lock (156-179): func has returned, raised an
\* exception, or asyncio.wait_for has timed out
breaker_complete(b, i, outcome) ==
    LET b1 == [b EXCEPT !.calls[i].status = outcome, !.last = i,
                        !.streak = IF outcome = "ok" THEN 0 ELSE @ + 1]
    IN  IF outcome = "ok" THEN on_success(b1)
        ELSE IF outcome = "timeout"
        THEN [on_failure(b1) EXCEPT !.total_timeouts = @ + 1]
        ELSE on_failure(b1)

(***************************************************************************)
(* The proxy pool (app/services/proxy_pool.py).  A setting that is not     *)
(* configured reads as the empty string (97-105).                          *)
(***************************************************************************)
\* proxy.asset_proxy_url, proxy.base_proxy_url, proxy.pool_url
ProxyConfig(asset, base, pool_url) ==
    [asset_proxy_url |-> asset, base_proxy_url |-> base, pool_url |-> pool_url]

ProxyConfigs ==
    {ProxyConfig(a, b, u) : a \in {"", "asset"}, b \in {"", "base"},
                            u \in {"", "pool"}}

\* what _fetch_pool_proxy (120-145) can do: return a proxy, return None, raise
Fetches == {"dyn1", "dyn2", None, "raise"}

\* Python's "a or b" on strings and None
or(a, b) == IF a # "" /\ a # None THEN a ELSE b

\* ProxyPool.__init__ (21-25), the configuration, a clock, the last get_proxy
NoGet == [for_asset |-> FALSE, config |-> ProxyConfig("", "", ""),
          absent |-> TRUE, age |-> 0, fetched |-> FALSE, cached |-> None,
          result |-> "not called"]
NewProxyPool ==
    [config |-> ProxyConfig("", "", ""), current_proxy |-> None,
     last_refresh_at |-> 0, clock |-> 0, last |-> NoGet]

\* _get_static_proxy (96-100)
get_static_proxy(p, for_asset) ==
    IF for_asset THEN p.config.asset_proxy_url ELSE p.config.base_proxy_url

\* _should_refresh (114-118)
should_refresh(p) ==
    IF p.current_proxy = None THEN TRUE
    ELSE p.clock - p.last_refresh_at >= pool_refresh_sec

\* refresh(force=False) (147-174) with what the fetch does
refresh(p, fetch) ==
    IF p.config.pool_url = ""
    THEN [p EXCEPT !.current_proxy = None, !.last_refresh_at = 0]
    ELSE IF ~should_refresh(p) THEN p
    ELSE IF fetch \in {None, "raise"} THEN [p EXCEPT !.last_refresh_at = p.clock]
    ELSE [p EXCEPT !.last_refresh_at = p.clock, !.current_proxy = fetch]

\* the value get_proxy returns, from the pool as refresh has left it
proxy_result(p, for_asset) ==
    LET static_proxy == get_static_proxy(p, for_asset)
    IN  IF for_asset /\ static_proxy # "" THEN static_proxy
        ELSE IF p.config.pool_url = "" THEN or(static_proxy, None)
        ELSE or(p.current_proxy, or(static_proxy, None))

\* get_proxy (213-227): the pool afterwards, with the call and its result
get_proxy(p, for_asset, fetch) ==
    LET static_proxy == get_static_proxy(p, for_asset)
        refreshes == /\ ~(for_asset /\ static_proxy # "")
                     /\ p.config.pool_url # ""
                     /\ should_refresh(p)
        p1 == IF refreshes THEN refresh(p, fetch) ELSE p
    IN  [p1 EXCEPT !.last = [for_asset |-> for_asset, config |-> p.config,
                             absent |-> p.current_proxy = None,
                             age |-> p.clock - p.last_refresh_at,
                             fetched |-> refreshes,
                             cached |-> p1.current_proxy,
                             result |-> proxy_result(p1, for_asset)]]

(***************************************************************************)
(* The chat semaphore (chat.py:40-41, 101-107, 250-288).                   *)
(***************************************************************************)
\* the values of chat.concurrent
Concurrents == {1, 2}

\* the module globals _CHAT_SEMAPHORE and _CHAT_SEM_VALUE (40-41), None as
\* 0, the configured chat.concurrent, the permits left in every semaphore
\* made so far, for every _stream() the semaphore it took and where it
\* stands, and the highest chat.concurrent configured so far
NewChatSemaphore ==
    [config |-> 1, CHAT_SEM_VALUE |-> 0, CHAT_SEMAPHORE |-> 0,
     permits |-> <<>>, streams |-> <<>>, highest |-> 1]

\* max(1, int(get_config("chat.concurrent"))) (103)
sem_value(s) == IF s.config < 1 THEN 1 ELSE s.config

\* _get_chat_semaphore (101-107): the globals afterwards
get_chat_semaphore(s) ==
    IF sem_value(s) # s.CHAT_SEM_VALUE
    THEN [s EXCEPT !.CHAT_SEM_VALUE = sem_value(s),
                   !.permits = Append(@, sem_value(s)),
                   !.CHAT_SEMAPHORE = Len(s.permits) + 1]
    ELSE s

\* Semaphore.acquire by stream i on semaphore k: taken at once or waited for
sem_acquire(s, i, k) ==
    IF s.permits[k] > 0
    THEN [s EXCEPT !.permits[k] = @ - 1, !.streams[i] = [sem |-> k, pc |-> "inside"]]
    ELSE [s EXCEPT !.streams[i] = [sem |-> k, pc |-> "waiting"]]

\* "async with _get_chat_semaphore():" is entered by a new _stream() (253)
stream_enter(s) ==
    LET s1 == get_chat_semaphore(s)
        s2 == [s1 EXCEPT !.streams = Append(@, [sem |-> 0, pc |-> "new"])]
    IN  sem_acquire(s2, Len(s2.streams), s1.CHAT_SEMAPHORE)

\* the upstream call of stream i has ended: the semaphore it took is released
stream_leave(s, i) ==
    [s EXCEPT !.permits[s.streams[i].sem] = @ + 1, !.streams[i].pc = "done"]

(***************************************************************************)
(* The tool card filter of the StreamProcessor (chat.py:662-733).  A text  *)
(* is a sequence of pieces: "a" is plain text, "n" a newline; the start    *)
(* tag "<xai:tool_usage_card" is the two pieces "S1" "S2", the body of a   *)
(* card with its name and arguments is "b", the end tag                    *)
(* "</xai:tool_usage_card>" is "E1" "E2"; "L" is the label of the card.    *)
(***************************************************************************)
start_tag == <<"S1", "S2">>
end_tag == <<"E1", "E2">>

\* str.find(tag, from): the first index at or after from where tag begins,
\* 0 when there is none
RECURSIVE find(_, _, _)
find(s, tag, from) ==
    IF from + Len(tag) - 1 > Len(s) THEN 0
    ELSE IF SubSeq(s, from, from + Len(tag) - 1) = tag THEN from
    ELSE find(s, tag, from + 1)

\* extract_tool_text (44-98) on a span with a card body, and on other text:
\* the label of the card, or the text with its tags stripped
extract_tool_text(raw) ==
    IF \E i \in DOMAIN raw : raw[i] = "b" THEN <<"L">>
    ELSE SelectSeq(raw, LAMBDA c : c \in {"a"})

\* "".join(output_parts)
RECURSIVE join(_)
join(parts) == IF parts = <<>> THEN <<>> ELSE Head(parts) \o join(Tail(parts))

\* the label line is appended to output_parts (678-681, 704-707)
append_line(parts, line) ==
    IF line = <<>> THEN parts
    ELSE LET k == Len(parts)
             ends == k > 0 /\ parts[k] # <<>> /\ parts[k][Len(parts[k])] = "n"
             parts1 == IF k > 0 /\ ~ends
                       THEN [parts EXCEPT ![k] = @ \o <<"n">>] ELSE parts
         IN  Append(parts1, line \o <<"n">>)

\* StreamProcessor.__init__ (657-658): _tool_usage_opened, _tool_usage_buffer
NewCardFilter == [tool_usage_opened |-> FALSE, tool_usage_buffer |-> <<>>]

\* the while loop of _filter_tool_card (671-710): the filter afterwards and
\* output_parts
RECURSIVE card_loop(_, _, _)
card_loop(f, rest, parts) ==
    IF rest = <<>> THEN [f |-> f, parts |-> parts]
    ELSE IF f.tool_usage_opened
    THEN LET end_idx == find(rest, end_tag, 1)
             end_pos == end_idx + Len(end_tag) - 1
             buffer == f.tool_usage_buffer \o SubSeq(rest, 1, end_pos)
         IN  IF end_idx = 0
             THEN [f |-> [f EXCEPT !.tool_usage_buffer = @ \o rest],
                   parts |-> parts]
             ELSE card_loop(NewCardFilter, SubSeq(rest, end_pos + 1, Len(rest)),
                            append_line(parts, extract_tool_text(buffer)))
    ELSE LET start_idx == find(rest, start_tag, 1)
             parts1 == IF start_idx > 1
                       THEN Append(parts, SubSeq(rest, 1, start_idx - 1))
                       ELSE parts
             end_idx == find(rest, end_tag, start_idx)
             end_pos == end_idx + Len(end_tag) - 1
         IN  IF start_idx = 0 THEN [f |-> f, parts |-> Append(parts, rest)]
             ELSE IF end_idx = 0
             THEN [f |-> [tool_usage_opened |-> TRUE,
                          tool_usage_buffer |-> SubSeq(rest, start_idx, Len(rest))],
                   parts |-> parts1]
             ELSE card_loop(f, SubSeq(rest, end_pos + 1, Len(rest)),
                            append_line(parts1,
                                        extract_tool_text(SubSeq(rest, start_idx,
                                                                 end_pos))))

\* _filter_tool_card (662-712) with the card tag in the filter list, and
\* _filter_token (714-733) with no other tag in it: the filter afterwards
\* and the text returned
filter_tool_card(f, token) ==
    LET r == card_loop(f, token, <<>>)
    IN  [f |-> r.f, out |-> join(r.parts)]

\* a request's answer text, the ends of its chunks fed so far, and what
\* came out of _filter_token: for the chunks, and for the text as one token
NoCards == [text |-> <<>>, pos |-> 0, cuts |-> {}, f |-> NewCardFilter,
            out |-> <<>>, whole |-> <<>>]

\* the answers: text, a card span, text
CardTexts ==
    {pre \o start_tag \o <<"b">> \o end_tag \o post :
        pre \in {<<>>, <<"a">>, <<"n">>, <<"a", "n">>}, post \in {<<>>, <<"a">>}}

(***************************************************************************)
(* compute_history_hash on message lists of every shape                    *)
(* (conversation_manager.py:63-104).                                       *)
(***************************************************************************)
\* the messages: every role the function tells apart, another role, two texts
HashMsgs ==
    {Msg(role, content) : role \in {"system", "user", "assistant", "tool"},
                          content \in {"x", "y"}}

\* a message list with its hash for exclude_last_user = True and = False
HashOf(messages) ==
    [messages |-> messages,
     excluding |-> compute_history_hash(messages, TRUE),
     plain |-> compute_history_hash(messages, FALSE)]

NoHash == HashOf(<<>>)

(***************************************************************************)
(* _filter_token (chat.py:714-733) on a text of pieces, with the filter    *)
(* list of app.filter_tags: the card tag, and another tag, whose markup is *)
(* the piece "G".                                                           *)
(***************************************************************************)
\* the filter lists: none, each tag alone, both
FilterTags == SUBSET {"xai:tool_usage_card", "grok:render"}

\* the pieces of a token text
Pieces == {"a", "n", "S1", "S2", "b", "E1", "E2", "G"}

\* _filter_token (714-733): the card filter afterwards and the text returned
filter_token_pieces(f, filter_tags, token) ==
    IF token = <<>> THEN [f |-> f, out |-> token]
    ELSE LET r == IF "xai:tool_usage_card" \in filter_tags
                  THEN filter_tool_card(f, token)
                  ELSE [f |-> f, out |-> token]
         IN  IF r.out = <<>> THEN r
             ELSE IF /\ "grok:render" \in filter_tags
                     /\ \E i \in DOMAIN r.out : r.out[i] = "G"
             THEN [f |-> r.f, out |-> <<>>]
             ELSE r

\* a token text x given to a processor with no card open, and the output
\* given to the same processor again
Twice(filter_tags, x) ==
    LET r1 == filter_token_pieces(NewCardFilter, filter_tags, x)
        r2 == filter_token_pieces(r1.f, filter_tags, r1.out)
    IN  [filter_tags |-> filter_tags, x |-> x, f1 |-> r1.f, once |-> r1.out,
         f2 |-> r2.f, twice |-> r2.out]

NoFilter == Twice({}, <<>>)

(***************************************************************************)
(* retry_async (app/utils/retry.py): RetryConfig, RetryContext and the     *)
(* loop.  Delays are whole seconds; random.uniform(a, b) is any whole      *)
(* number of a .. b.                                                       *)
(***************************************************************************)
\* RetryConfig (25-74): max_retry, retry_codes, the three backoff values and
\* retry_budget
RetryConfig(max_retry, retry_budget) ==
    [max_retry |-> max_retry, retry_codes |-> {429, 500},
     backoff_base |-> 1, backoff_factor |-> 2, backoff_max |-> 2,
     retry_budget |-> retry_budget]

\* the budgets of RetryStart: one that two delays exhaust, one that none does
RetryBudgets == {2, 9}

\* what func does in one call: it returns, or raises an error with a status
\* code (0 when extract_status gives None) and a Retry-After value (0 when
\* extract_retry_after gives None)
FuncOutcome(kind, status, retry_after) ==
    [kind |-> kind, status |-> status, retry_after |-> retry_after]

FuncOutcomes ==
    {FuncOutcome("ok", 200, 0), FuncOutcome("error", 0, 0),
     FuncOutcome("error", 429, 0), FuncOutcome("error", 429, 1),
     FuncOutcome("error", 500, 0), FuncOutcome("error", 400, 0)}

Least(a, b) == IF a <= b THEN a ELSE b

RECURSIVE Power(_, _)
Power(b, e) == IF e = 0 THEN 1 ELSE b * Power(b, e - 1)

\* RetryContext.__init__ (80-92)
RetryContext(config) ==
    [config |-> config, attempt |-> 0, last_status |-> 0, total_delay |-> 0,
     last_delay |-> config.backoff_base]

\* RetryContext.should_retry (95-110)
should_retry(ctx, status_code) ==
    /\ ~(ctx.attempt >= ctx.config.max_retry)
    /\ status_code \in ctx.config.retry_codes
    /\ ~(ctx.total_delay >= ctx.config.retry_budget)

\* RetryContext.record_error (112-123)
record_error(ctx, status_code) ==
    [ctx EXCEPT !.last_status = status_code, !.attempt = @ + 1]

\* RetryContext.calculate_delay (125-161): the set of [ctx, delay] it can
\* give
calculate_delay(ctx, status_code, retry_after) ==
    IF retry_after > 0
    THEN LET delay == Least(retry_after, ctx.config.backoff_max)
         IN  {[ctx |-> [ctx EXCEPT !.last_delay = delay], delay |-> delay]}
    ELSE IF status_code = 429
    THEN {[ctx |-> [ctx EXCEPT !.last_delay = Least(d, ctx.config.backoff_max)],
           delay |-> Least(d, ctx.config.backoff_max)] :
             d \in ctx.config.backoff_base .. ctx.last_delay * 3}
    ELSE LET exp_delay == ctx.config.backoff_base
                            * Power(ctx.config.backoff_factor, ctx.attempt)
         IN  {[ctx |-> ctx, delay |-> d] :
                 d \in 0 .. Least(exp_delay, ctx.config.backoff_max)}

\* RetryContext.record_delay (163-170)
record_delay(ctx, delay) == [ctx EXCEPT !.total_delay = @ + delay]

\* one run of retry_async: where it stands ("idle", "loop", "returned",
\* "raised"), its context, the calls of func so far with their outcomes, and
\* why it raised: "none", "no_status" (299-302), "budget" (316-320),
\* "stop" (337-347)
IdleRetry ==
    [pc |-> "idle", ctx |-> RetryContext(RetryConfig(0, 0)), calls |-> <<>>,
     why |-> "none"]

\* retry_async (267-350): one pass of the while loop, func answering with
\* outcome; the set of the states it can leave
retry_pass(r, outcome) ==
    LET r1 == [r EXCEPT !.calls = Append(@, outcome)]
        ctx1 == record_error(r.ctx, outcome.status)
    IN  IF outcome.kind = "ok" THEN {[r1 EXCEPT !.pc = "returned"]}
        ELSE IF outcome.status = 0
        THEN {[r1 EXCEPT !.pc = "raised", !.why = "no_status"]}
        ELSE IF should_retry(ctx1, outcome.status)
        THEN {IF ctx1.total_delay + c.delay > ctx1.config.retry_budget
              THEN [r1 EXCEPT !.pc = "raised", !.why = "budget", !.ctx = c.ctx]
              ELSE [r1 EXCEPT !.ctx = record_delay(c.ctx, c.delay)] :
                 c \in calculate_delay(ctx1, outcome.status, outcome.retry_after)}
        ELSE {[r1 EXCEPT !.pc = "raised", !.why = "stop", !.ctx = ctx1]}

(***************************************************************************)
(* DistributedCache (app/utils/distributed_cache.py) with the local cache  *)
(* enabled and a Redis client.  A cache entry is [value, expire_at],       *)
(* expire_at 0 for no expiry; Redis drops a key when its expiry is reached.*)
(***************************************************************************)
CacheKeys == {"k1", "k2", "k3"}

CacheEntry(value, expire_at) == [value |-> value, expire_at |-> expire_at]

\* Sequence membership: `key in list`
InList(seq, x) == \E i \in DOMAIN seq : seq[i] = x

\* DistributedCache.__init__ (28-54), with the process clock, the keys Redis
\* holds, the number of public calls so far and the last one
NewCache ==
    [local_cache |-> <<>>, local_access_order |-> <<>>, redis |-> <<>>,
     clock |-> 0, nops |-> 0, last |-> [op |-> "none", key |-> "None"]]

\* DistributedCache._get_from_local (86-112): [cache, hit]
get_from_local(c, key) ==
    IF key \notin DOMAIN c.local_cache THEN [cache |-> c, hit |-> FALSE]
    ELSE IF c.local_cache[key].expire_at > 0 /\ c.clock > c.local_cache[key].expire_at
    THEN [cache |-> [c EXCEPT !.local_cache = Without(@, key),
                              !.local_access_order = RemoveFirst(@, key)],
          hit |-> FALSE]
    ELSE [cache |-> [c EXCEPT !.local_access_order =
                                  Append(RemoveFirst(@, key), key)],
          hit |-> TRUE]

\* DistributedCache._set_to_local (114-129)
set_to_local(c, key, value, ttl) ==
    LET c1 == IF /\ Cardinality(DOMAIN c.local_cache) >= local_cache_size
                 /\ c.local_access_order # <<>>
              THEN [c EXCEPT !.local_access_order = Tail(@),
                             !.local_cache = Without(@, Head(c.local_access_order))]
              ELSE c
        expire_at == IF ttl > 0 THEN c.clock + ttl ELSE 0
    IN  [c1 EXCEPT !.local_cache = With(@, key, CacheEntry(value, expire_at)),
                   !.local_access_order = Append(@, key)]

\* DistributedCache._delete_from_local (131-138)
delete_from_local(c, key) ==
    [c EXCEPT !.local_cache = Without(@, key),
              !.local_access_order = RemoveFirst(@, key)]

\* the keys Redis still holds at the time of the call
redis_live(c) ==
    [k \in {k \in DOMAIN c.redis :
               c.redis[k].expire_at = 0 \/ c.clock < c.redis[k].expire_at}
        |-> c.redis[k]]

\* DistributedCache.get (140-183)
cache_get(c, key) ==
    LET got == get_from_local(c, key)
        live == redis_live(c)
        c1 == [got.cache EXCEPT !.redis = live]
    IN  IF got.hit \/ key \notin DOMAIN live THEN c1
        ELSE LET ttl == IF live[key].expire_at = 0 THEN -1
                        ELSE live[key].expire_at - c.clock
             IN  IF ttl > 0 THEN set_to_local(c1, key, live[key].value, ttl)
                 ELSE c1

\* DistributedCache.set (185-214), ttl given
cache_set(c, key, value, ttl) ==
    LET c1 == set_to_local(c, key, value, ttl)
    IN  [c1 EXCEPT !.redis = With(redis_live(c), key,
                                  CacheEntry(value, IF ttl > 0 THEN c.clock + ttl
                                                    ELSE 0))]

\* DistributedCache.delete (216-236)
cache_delete(c, key) ==
    [delete_from_local(c, key) EXCEPT !.redis = Without(redis_live(c), key)]

(***************************************************************************)
(* WebSocketPool (app/utils/websocket_pool.py).  acquire, release and      *)
(* remove run under the pool's lock from their first to their last line,   *)
(* so each is one step.  Connections are numbered in the order the factory *)
(* makes them.                                                             *)
(***************************************************************************)
\* ConnectionState (16-21)
ConnectionState == [IDLE |-> "idle", ACTIVE |-> "active", CLOSED |-> "closed"]

WsKeys == {"K1", "K2"}
Callers == {"A", "B", "C"}

\* PooledConnection (24-39)
PooledConnection(connection, state, t_now) ==
    [connection |-> connection, state |-> state, created_at |-> t_now,
     last_used_at |-> t_now, use_count |-> 0]

\* a caller that holds no connection
NoHold == [connection |-> 0, key |-> "None"]

\* WebSocketPool.__init__ (44-75) with the clock, the connections made and
\* closed so far, the calls of acquire so far, and what each caller holds:
\* the connection acquire returned to it and the key it asked for
NewWsPool ==
    [pool |-> <<>>, clock |-> 0, made |-> 0, closed |-> {}, acquires |-> 0,
     held |-> [c \in Callers |-> NoHold]]

\* WebSocketPool._close_connection (205-213) and `del self._pool[key]`
close_and_delete(w, key) ==
    [w EXCEPT !.closed = @ \cup {w.pool[key].connection},
              !.pool = Without(@, key)]

\* a pooled connection is past max_lifetime or max_idle_time
ws_expired(w, key) ==
    \/ w.clock - w.pool[key].created_at > max_lifetime
    \/ w.clock - w.pool[key].last_used_at > max_idle_time

RECURSIVE close_all(_, _)
close_all(w, keys) ==
    IF keys = {} THEN w
    ELSE LET key == CHOOSE k \in keys : TRUE
         IN  close_all(close_and_delete(w, key), keys \ {key})

\* WebSocketPool._cleanup_expired (215-234)
ws_cleanup_expired(w) ==
    close_all(w, {k \in DOMAIN w.pool :
                     w.pool[k].state = ConnectionState.IDLE /\ ws_expired(w, k)})

\* WebSocketPool.acquire (105-175): [pool, result], result 0 when it raises
\* "WebSocket pool is full"
ws_acquire(w, key) ==
    LET reuse == /\ key \in DOMAIN w.pool
                 /\ w.pool[key].state = ConnectionState.IDLE
                 /\ ~ws_expired(w, key)
        w1 == IF key \in DOMAIN w.pool /\ w.pool[key].state = ConnectionState.IDLE
              THEN close_and_delete(w, key) ELSE w
        w2 == IF Cardinality(DOMAIN w1.pool) >= max_size
              THEN ws_cleanup_expired(w1) ELSE w1
    IN  IF reuse
        THEN [pool |-> [w EXCEPT !.pool[key].state = ConnectionState.ACTIVE,
                                 !.pool[key].last_used_at = w.clock,
                                 !.pool[key].use_count = @ + 1],
              result |-> w.pool[key].connection]
        ELSE IF Cardinality(DOMAIN w2.pool) >= max_size
        THEN [pool |-> w2, result |-> 0]
        ELSE [pool |-> [w2 EXCEPT
                          !.made = @ + 1,
                          !.pool = With(@, key,
                                        PooledConnection(w2.made + 1, ConnectionState.ACTIVE,
                                                         w2.clock))],
              result |-> w2.made + 1]

\* WebSocketPool.release (177-189)
ws_release(w, key) ==
    IF key \in DOMAIN w.pool
    THEN [w EXCEPT !.pool[key].state = ConnectionState.IDLE, !.pool[key].last_used_at = w.clock]
    ELSE w

\* WebSocketPool.remove (191-203)
ws_remove(w, key) ==
    IF key \in DOMAIN w.pool THEN close_and_delete(w, key) ELSE w

(***************************************************************************)
(* The parts checked on their own: the ConversationManager under any calls, *)
(* and one streaming request.                                              *)
(***************************************************************************)
NoCall == [op |-> "none"]

InitUnits ==
    /\ lastCall = NoCall
    /\ ncalls = 0
    /\ sp = IdleStream
    /\ sv = NewSaver
    /\ cb = NewBreaker
    /\ px = NewProxyPool
    /\ sem = NewChatSemaphore
    /\ fc = NoCards
    /\ hh = NoHash
    /\ ft = NoFilter
    /\ rt = IdleRetry
    /\ dc = NewCache
    /\ ws = NewWsPool
(***************************************************************************)
(* ChatService.completions.  rq holds the locals of the request in flight   *)
(* (pc is the place the coroutine has reached) together with a record of    *)
(* what the request has done: the id it resolved to, its attempts, the      *)
(* tokens it called apply_cooldown for, the result of clone_share_link and  *)
(* what the client received.                                                *)
(***************************************************************************)
NoClone == [ok |-> FALSE, conv |-> 0, resp |-> 0]
NoResult == [kind |-> "none", token |-> None, error |-> NoError]
NoFollow == [is |-> FALSE, id |-> 0]
NoPrev == [is |-> FALSE, messages |-> <<>>, explicit |-> 0, resolved_id |-> 0,
           kind |-> "none"]
NoExchange == [id |-> 0, messages |-> <<>>]

IdleRq == [pc |-> "idle", stream |-> FALSE, messages |-> <<>>,
           openai_conv_id |-> 0, context |-> NoCtx, tried_tokens |-> {},
           attempt |-> 0, last_error |-> NoError, token |-> None,
           explicit |-> 0, resolved_id |-> 0, follows |-> NoFollow,
           prev |-> NoPrev, pinned_exhausted |-> None, attempts |-> <<>>,
           cooled |-> {}, cloned |-> NoClone, result |-> NoResult]

SetStore(S) ==
    /\ conversations' = S.conversations
    /\ token_conversations' = S.token_conversations
    /\ hash_to_conversation' = S.hash_to_conversation

SetManager(TM) ==
    /\ SetPool(TM.pool)
    /\ tokenMeta' = TM.meta

\* context is a reference to the object stored under openai_conv_id: a change
\* made to that object by somebody else is seen through it
Alias(r, S) ==
    IF /\ r.pc \in {"loop", "clone", "issue", "chat"}
       /\ r.context # NoCtx
       /\ r.openai_conv_id \in DOMAIN S.conversations
    THEN [r EXCEPT !.context = S.conversations[r.openai_conv_id]]
    ELSE r

\* messages is exchange.messages followed by an assistant reply and a new
\* user turn
NextTurn(messages, exchange) ==
    /\ exchange.id # 0
    /\ Len(messages) = Len(exchange.messages) + 2
    /\ SubSeq(messages, 1, Len(exchange.messages)) = exchange.messages
    /\ messages[Len(messages) - 1].role = "assistant"
    /\ messages[Len(messages)].role = "user"

\* the model's ModelService.get(model).cost: every model is a low-cost one
effort == "low"

\* chat.py:390-404: resolve the context, by explicit id or by history
BeginRequest(stream, messages, conversation_id) ==
    /\ rq.pc \in {"idle", "done"}
    /\ LET got1 == IF conversation_id # 0
                   THEN get_conversation(Store, conversation_id, now)
                   ELSE [store |-> Store, context |-> NoCtx]
           auto == IF got1.context = NoCtx /\ Len(messages) > 1
                   THEN find_conversation_by_history(got1.store, messages, now)
                   ELSE [store |-> got1.store, conv_id |-> 0]
           got2 == IF auto.conv_id # 0
                   THEN get_conversation(auto.store, auto.conv_id, now)
                   ELSE [store |-> auto.store, context |-> got1.context]
           known == IF auto.conv_id # 0 THEN auto.conv_id ELSE conversation_id
           openai_conv_id == IF known # 0 THEN known ELSE NewId(nreq + 1, 1)
           follows == /\ conversation_id = 0
                      /\ NextTurn(messages, lastOk)
                      /\ lastOk.id \in DOMAIN conversations
                      /\ ~Expired(conversations[lastOk.id], now)
       IN  /\ SetStore(got2.store)
           /\ rq' = [IdleRq EXCEPT
                       !.pc = "loop", !.stream = stream, !.messages = messages,
                       !.explicit = conversation_id,
                       !.openai_conv_id = openai_conv_id,
                       !.context = got2.context,
                       !.resolved_id = openai_conv_id,
                       !.follows = [is |-> follows,
                                    id |-> IF follows THEN lastOk.id ELSE 0],
                       !.prev = IF rq.pc = "done"
                                THEN [is |-> TRUE, messages |-> rq.messages,
                                      explicit |-> rq.explicit,
                                      resolved_id |-> rq.resolved_id,
                                      kind |-> rq.result.kind]
                                ELSE NoPrev]
    /\ nreq' = nreq + 1
    /\ UNCHANGED unitVars
    /\ UNCHANGED <<poolVars, lastSelect, tokenMeta, shareTasks, now, lastOk>>

\* chat.py:411-457 up to the call of clone_share_link: pick a token, raise
\* when there is none, detach from the context when it cannot be migrated
Pick ==
    /\ rq.pc = "loop"
    /\ LET preferred == IF rq.context # NoCtx THEN rq.context.token ELSE None
       IN  \E p \in pick_token(Manager, rq.tried_tokens, preferred, now) :
             /\ SetManager(p.mgr)
             /\ IF p.token = None
                THEN rq' = [rq EXCEPT
                              !.pc = "done",
                              !.result = [kind |-> "error", token |-> None,
                                          error |-> IF rq.last_error # NoError
                                                    THEN rq.last_error
                                                    ELSE NoTokensError]]
                ELSE LET differs == rq.context # NoCtx /\ p.token # rq.context.token
                         detach == differs /\ rq.context.share_link_id = 0
                         r1 == [rq EXCEPT
                                  !.token = p.token,
                                  !.tried_tokens = @ \cup {p.token},
                                  !.pinned_exhausted =
                                      IF /\ rq.attempt = 0
                                         /\ preferred \in DOMAIN tokens
                                         /\ rq.context.share_link_id # 0
                                         /\ \/ tokens[preferred].status # ACTIVE
                                            \/ tokens[preferred].quota = 0
                                         /\ \E t2 \in DOMAIN tokens \ {preferred} :
                                               /\ tokens[t2].status = ACTIVE
                                               /\ tokens[t2].quota > 0
                                      THEN preferred
                                      ELSE @,
                                  !.attempts = Append(@,
                                      [token |-> p.token, phase |-> "picked",
                                       conversation_id |-> 0,
                                       parent_response_id |-> 0,
                                       x_last |-> 0, other_token |-> FALSE,
                                       answer |-> 0])]
                     IN  IF differs /\ ~detach
                         THEN rq' = [r1 EXCEPT !.pc = "clone"]
                         ELSE IF detach
                         THEN rq' = [r1 EXCEPT !.pc = "issue", !.context = NoCtx,
                                               !.openai_conv_id =
                                                   NewId(nreq, 2 + rq.attempt)]
                         ELSE rq' = [r1 EXCEPT !.pc = "issue"]
    /\ UNCHANGED unitVars
    /\ UNCHANGED <<storeVars, lastSelect, shareTasks, now, nreq, lastOk>>

\* chat.py:436-457: clone_share_link returns (conv, resp), (conv, None) or
\* (None, None)
CloneReturn(outcome) ==
    /\ rq.pc = "clone"
    /\ LET new_conv_id == IF outcome = "fail" THEN 0
                          ELSE NewId(nreq, 4 + rq.attempt)
           new_resp_id == IF outcome = "ok" THEN NewId(nreq, 6 + rq.attempt)
                          ELSE 0
           ok == new_conv_id # 0 /\ new_resp_id # 0
           S1 == IF ok
                 THEN update_conversation(Store, rq.openai_conv_id, new_resp_id,
                                          <<>>, rq.context.share_link_id,
                                          new_conv_id, rq.token, FALSE, now)
                 ELSE Store
           got == IF ok THEN get_conversation(S1, rq.openai_conv_id, now)
                  ELSE [store |-> S1, context |-> NoCtx]
       IN  /\ SetStore(got.store)
           /\ rq' = [rq EXCEPT
                       !.pc = "issue",
                       !.context = got.context,
                       !.openai_conv_id = IF got.context = NoCtx
                                          THEN NewId(nreq, 2 + rq.attempt)
                                          ELSE @,
                       !.cloned = [ok |-> ok, conv |-> new_conv_id,
                                   resp |-> new_resp_id]]
    /\ UNCHANGED unitVars
    /\ UNCHANGED <<poolVars, lastSelect, tokenMeta, shareTasks, now, nreq, lastOk>>

\* the for loop goes on to its next round, or ends and last_error is raised
\* (chat.py:411, 626-627)
continue(r) ==
    IF r.attempt + 1 < max_token_retries
    THEN [r EXCEPT !.attempt = @ + 1, !.pc = "loop"]
    ELSE [r EXCEPT !.attempt = @ + 1, !.pc = "done",
                   !.result = [kind |-> "error", token |-> None,
                               error |-> r.last_error]]

\* a mutant of except_UpstreamException: last_error is not assigned
except_UpstreamException_forgets(r, TM, e, t_now) ==
    LET status == extract_status_code(e)
    IN  IF rate_limited(e)
        THEN [rq |-> continue([r EXCEPT !.cooled = @ \cup {r.token}]),
              mgr |-> apply_cooldown(TM, r.token, 429, rate_limit_has_quota(e), t_now)]
        ELSE IF status # 0 /\ status \notin {401, 403}
        THEN [rq |-> continue([r EXCEPT !.cooled = @ \cup {r.token}]),
              mgr |-> apply_cooldown(TM, r.token, status, None, t_now)]
        ELSE [rq |-> [r EXCEPT !.pc = "done",
                               !.result = [kind |-> "error", token |-> r.token,
                                           error |-> e]],
              mgr |-> TM]

\* chat.py:593-623, the handler of UpstreamException: [rq, mgr]
except_UpstreamException(r, TM, e, t_now) ==
    LET r1 == [r EXCEPT !.last_error = e]
        status == extract_status_code(e)
    IN  IF rate_limited(e)
        THEN [rq |-> continue([r1 EXCEPT !.cooled = @ \cup {r.token}]),
              mgr |-> apply_cooldown(TM, r.token, 429, rate_limit_has_quota(e), t_now)]
        ELSE IF status # 0 /\ status \notin {401, 403}
        THEN [rq |-> continue([r1 EXCEPT !.cooled = @ \cup {r.token}]),
              mgr |-> apply_cooldown(TM, r.token, status, None, t_now)]
        ELSE [rq |-> [r1 EXCEPT !.pc = "done",
                                !.result = [kind |-> "error", token |-> r.token,
                                            error |-> e]],
              mgr |-> TM]

LastAttempt(r, phase, answer) ==
    [r EXCEPT !.attempts[Len(r.attempts)].phase = phase,
              !.attempts[Len(r.attempts)].answer = answer]

\* chat.py:460-472 with chat_openai: the attachments of the messages, if any,
\* are uploaded (upload is Ok, or the UpstreamException upload_file raises),
\* then chat() hands back its generator, which has not run yet
Issue(upload) ==
    /\ rq.pc = "issue"
    /\ IF upload \in Errors
       THEN LET h == except_UpstreamException(
                         LastAttempt(rq, "upload", upload.status),
                         Manager, upload, now)
            IN  /\ rq' = h.rq
                /\ SetManager(h.mgr)
       ELSE /\ rq' = [rq EXCEPT
                        !.pc = "chat",
                        !.attempts[Len(rq.attempts)].phase = "chat",
                        !.attempts[Len(rq.attempts)].conversation_id =
                            IF rq.context # NoCtx
                            THEN rq.context.conversation_id ELSE 0,
                        !.attempts[Len(rq.attempts)].parent_response_id =
                            IF rq.context # NoCtx
                            THEN rq.context.last_response_id ELSE 0,
                        !.attempts[Len(rq.attempts)].x_last =
                            IF rq.follows.is /\ rq.follows.id \in DOMAIN conversations
                            THEN conversations[rq.follows.id].last_response_id
                            ELSE 0]
            /\ UNCHANGED <<poolVars, tokenMeta>>
    /\ UNCHANGED unitVars
    /\ UNCHANGED <<storeVars, lastSelect, shareTasks, now, nreq, lastOk>>

\* chat.py:481-520 and 552-588: the exchange is stored and _share() is
\* scheduled, when both upstream ids are known
StoreExchange(S, r, grok_conv_id, grok_resp_id, t_now) ==
    IF grok_conv_id = 0 \/ grok_resp_id = 0 THEN S
    ELSE IF r.context # NoCtx
    THEN update_conversation(S, r.openai_conv_id, grok_resp_id, r.messages,
                             Absent, grok_conv_id, r.token, TRUE, t_now)
    ELSE create_conversation(S, r.token, grok_conv_id, grok_resp_id,
                             r.messages, r.openai_conv_id, t_now)

\* The generator of chat() is iterated: the upstream call is made now.
\* Streaming (stream_wrapper, chat.py:522-534): the client iterates; an
\* error of the call reaches the client, a clean end is followed by consume
\* (wrap_stream_with_usage) and the success path.  Non-streaming
\* (chat.py:538-591): CollectProcessor.process swallows every error and
\* returns what it has collected; consume and the success path follow.
Respond(answer) ==
    /\ rq.pc = "chat"
    /\ LET call == rq.attempts[Len(rq.attempts)]
           is_continue == call.conversation_id # 0 /\ call.parent_response_id # 0
           failed == answer \in Errors
           response_id == IF failed THEN 0 ELSE NewId(nreq, 8)
           upstream_conv_id == IF failed THEN 0
                               ELSE IF is_continue THEN call.conversation_id
                               ELSE NewId(nreq, 9)
           grok_conv_id == IF upstream_conv_id # 0 THEN upstream_conv_id
                           ELSE IF rq.context # NoCtx
                           THEN rq.context.conversation_id ELSE 0
           raised == failed /\ rq.stream
           S1 == IF raised THEN Store
                 ELSE StoreExchange(Store, rq, grok_conv_id, response_id, now)
           stored == ~raised /\ grok_conv_id # 0 /\ response_id # 0
           other == \E t \in DOMAIN tokens \ rq.tried_tokens :
                        tokens[t].status = ACTIVE /\ tokens[t].quota > 0
           r1 == [LastAttempt(rq, "chat", IF failed THEN answer.status ELSE 200)
                     EXCEPT !.attempts[Len(rq.attempts)].other_token = other,
                            !.pc = "done"]
       IN  /\ SetStore(S1)
           /\ SetManager(IF raised THEN Manager ELSE consume(Manager, rq.token, effort))
           /\ shareTasks' = IF stored
                            THEN shareTasks \cup
                                 {[id |-> rq.openai_conv_id, resp |-> response_id,
                                   conv |-> grok_conv_id, token |-> rq.token]}
                            ELSE shareTasks
           /\ lastOk' = IF stored /\ rq.openai_conv_id \in DOMAIN S1.conversations
                        THEN [id |-> rq.openai_conv_id, messages |-> rq.messages]
                        ELSE lastOk
           /\ rq' = [r1 EXCEPT
                       !.result = IF raised
                                  THEN [kind |-> "error", token |-> rq.token,
                                        error |-> answer]
                                  ELSE [kind |-> IF failed THEN "empty" ELSE "ok",
                                        token |-> rq.token, error |-> NoError]]
    /\ UNCHANGED unitVars
    /\ UNCHANGED <<lastSelect, now, nreq>>

\* a detached _share() task ends (chat.py:506-520, 574-588):
\* share_conversation returned a share link id, or None
ShareReturn(task, shared) ==
    /\ task \in shareTasks
    /\ shareTasks' = shareTasks \ {task}
    /\ LET S1 == IF shared
                 THEN update_conversation(Store, task.id, task.resp, <<>>,
                                          task.resp + 2, task.conv, task.token,
                                          FALSE, now)
                 ELSE Store
       IN  /\ SetStore(S1)
           /\ rq' = Alias(rq, S1)
    /\ UNCHANGED unitVars
    /\ UNCHANGED <<poolVars, lastSelect, tokenMeta, now, nreq, lastOk>>

\* time passes: between requests, and while clone_share_link is awaited
Tick ==
    /\ rq.pc \in {"idle", "done", "clone"}
    /\ now < MaxTime
    /\ now' = now + 1
    /\ UNCHANGED unitVars
    /\ UNCHANGED <<poolVars, lastSelect, tokenMeta, storeVars, rq, shareTasks,
                   nreq, lastOk>>

\* the cleanup loop runs _cleanup_expired
Cleanup ==
    /\ ExpiredIds(Store, now) # {}
    /\ SetStore(cleanup_expired(Store, now))
    /\ UNCHANGED unitVars
    /\ UNCHANGED <<poolVars, lastSelect, tokenMeta, rq, shareTasks, now,
                   nreq, lastOk>>

\* an administrator removes a token from the full pool, between requests
RemoveToken(t) ==
    /\ rq.pc \in {"idle", "done"}
    /\ DOMAIN tokens = Tokens
    /\ SetPool(pool_remove(Pool, t))
    /\ UNCHANGED unitVars
    /\ UNCHANGED <<lastSelect, tokenMeta, storeVars, rq, shareTasks, now,
                   nreq, lastOk>>

\* the token pool holds T1 and T2, ACTIVE with quota 1; nothing is stored
Init ==
    /\ LET P == pool_add(pool_add(EmptyPool, "T1", TokenInfo(ACTIVE, 1)),
                         "T2", TokenInfo(ACTIVE, 1))
       IN  /\ tokens = P.tokens
           /\ quota_buckets = P.quota_buckets
           /\ non_empty_quotas = P.non_empty_quotas
    /\ lastSelect = NoSelect
    /\ tokenMeta = [t \in Tokens |-> NoMeta]
    /\ conversations = EmptyStore.conversations
    /\ token_conversations = EmptyStore.token_conversations
    /\ hash_to_conversation = EmptyStore.hash_to_conversation
    /\ rq = IdleRq
    /\ shareTasks = {}
    /\ now = 0
    /\ nreq = 0
    /\ lastOk = NoExchange
    /\ InitUnits

\* Spec: the retry loop under every outcome of upload, clone and chat call,
\* for requests that open a conversation or take its second turn
Next ==
    \/ /\ nreq < MaxReq
       /\ \E stream \in BOOLEAN, messages \in TwoTurns,
             conversation_id \in {0} \cup DOMAIN conversations :
               BeginRequest(stream, messages, conversation_id)
    \/ Pick
    \/ \E outcome \in {"ok", "no_resp", "fail"} : CloneReturn(outcome)
    \/ \E upload \in {Ok} \cup Errors : Issue(upload)
    \/ \E answer \in {Ok} \cup Errors : Respond(answer)
    \/ \E task \in shareTasks, shared \in BOOLEAN : ShareReturn(task, shared)
    \/ Tick
    \/ Cleanup
    \/ \E t \in Tokens : RemoveToken(t)

Spec == Init /\ [][Next]_vars

\* SpecTurns: conversations of up to three turns, without explicit ids and
\* without upload failures
NextTurns ==
    \/ /\ nreq < MaxTurns
       /\ \E stream \in BOOLEAN, messages \in MsgLists :
               BeginRequest(stream, messages, 0)
    \/ Pick
    \/ \E outcome \in {"ok", "fail"} : CloneReturn(outcome)
    \/ Issue(Ok)
    \/ \E answer \in {Ok, UpstreamException(500, <<>>)} : Respond(answer)
    \/ \E task \in shareTasks, shared \in BOOLEAN : ShareReturn(task, shared)
    \/ Tick
    \/ Cleanup
    \/ \E t \in Tokens : RemoveToken(t)

SpecTurns == Init /\ [][NextTurns]_vars

(***************************************************************************)
(* SpecPool: one TokenPool under add, remove, field changes and select.     *)
(***************************************************************************)
InitPool ==
    /\ tokens = EmptyPool.tokens
    /\ quota_buckets = EmptyPool.quota_buckets
    /\ non_empty_quotas = EmptyPool.non_empty_quotas
    /\ lastSelect = NoSelect
    /\ tokenMeta = [t \in Tokens |-> NoMeta]
    /\ conversations = EmptyStore.conversations
    /\ token_conversations = EmptyStore.token_conversations
    /\ hash_to_conversation = EmptyStore.hash_to_conversation
    /\ rq = IdleRq
    /\ shareTasks = {}
    /\ now = 0
    /\ nreq = 0
    /\ lastOk = NoExchange
    /\ InitUnits

\* pool.add(TokenInfo(token, status, quota)); the token may already be stored
PoolAdd(t, status, quota) ==
    /\ SetPool(pool_add(Pool, t, TokenInfo(status, quota)))
    /\ lastSelect' = NoSelect
    /\ UNCHANGED unitVars
    /\ UNCHANGED chatVars

\* pool.remove(token)
PoolRemove(t) ==
    /\ t \in DOMAIN tokens
    /\ SetPool(pool_remove(Pool, t))
    /\ lastSelect' = NoSelect
    /\ UNCHANGED unitVars
    /\ UNCHANGED chatVars

\* a status or quota change of a stored token, followed by update_index
PoolChange(t, status, quota) ==
    /\ t \in DOMAIN tokens
    /\ TokenInfo(status, quota) # tokens[t]
    /\ SetPool(set_token(Pool, t, TokenInfo(status, quota)))
    /\ lastSelect' = NoSelect
    /\ UNCHANGED unitVars
    /\ UNCHANGED chatVars

\* pool.select(exclude)
PoolSelect(exclude) ==
    /\ \E r \in select(Pool, exclude) :
           lastSelect' = [done |-> TRUE, exclude |-> exclude, result |-> r]
    /\ UNCHANGED poolVars
    /\ UNCHANGED unitVars
    /\ UNCHANGED chatVars

NextPool ==
    \/ \E t \in Tokens, s \in PoolStatuses, q \in QuotaVals : PoolAdd(t, s, q)
    \/ \E t \in Tokens : PoolRemove(t)
    \/ \E t \in Tokens, s \in PoolStatuses, q \in QuotaVals : PoolChange(t, s, q)
    \/ \E ex \in SUBSET Tokens : PoolSelect(ex)

SpecPool == InitPool /\ [][NextPool]_vars


(***************************************************************************)
(* The ConversationManager on its own: every public operation, called with *)
(* any arguments, in any order.                                            *)
(***************************************************************************)
\* the gateway ids the callers pass
StoreIds == 1 .. MaxStoreIds

\* the messages of a first request and of the request that follows it
FirstTurn == <<Usr("u1")>>
SecondTurn == <<Usr("u1"), Ast("a1"), Usr("u2")>>

\* one more call: what no call on the manager touches
StoreFrame ==
    /\ ncalls < MaxCalls
    /\ ncalls' = ncalls + 1
    /\ UNCHANGED <<poolVars, lastSelect, tokenMeta, rq, shareTasks, nreq, lastOk, sp, sv, cb, px, sem, fc, hh, ft, rt, dc, ws>>

\* create_conversation(token, grok ids, messages, openai_conv_id)
CallCreate(token, messages, openai_conv_id) ==
    /\ LET S2 == create_conversation(Store, token, NewId(openai_conv_id, 9),
                                     NewId(openai_conv_id, 8), messages,
                                     openai_conv_id, now)
       IN  /\ SetStore(S2)
           /\ lastCall' = [op |-> "create", id |-> openai_conv_id,
                           context |-> NoCtx]
    /\ UNCHANGED now
    /\ StoreFrame

\* update_conversation(openai_conv_id, grok_response_id, messages, token=...)
CallUpdate(openai_conv_id, messages, token) ==
    /\ LET S2 == update_conversation(Store, openai_conv_id,
                                     NewId(openai_conv_id, 8), messages, Absent,
                                     Absent, token, TRUE, now)
       IN  /\ SetStore(S2)
           /\ lastCall' = [op |-> "update", id |-> openai_conv_id,
                           context |-> NoCtx]
    /\ UNCHANGED now
    /\ StoreFrame

\* delete_conversation(openai_conv_id)
CallDelete(openai_conv_id) ==
    /\ LET S2 == delete_conversation(Store, openai_conv_id)
       IN  /\ SetStore(S2)
           /\ lastCall' = [op |-> "delete", id |-> openai_conv_id,
                           context |-> NoCtx]
    /\ UNCHANGED now
    /\ StoreFrame

\* get_conversation(openai_conv_id)
CallGet(openai_conv_id) ==
    /\ LET got == get_conversation(Store, openai_conv_id, now)
       IN  /\ SetStore(got.store)
           /\ lastCall' = [op |-> "get", id |-> openai_conv_id,
                           context |-> got.context]
    /\ UNCHANGED now
    /\ StoreFrame

\* find_conversation_by_history(messages)
CallFind(messages) ==
    /\ LET found == find_conversation_by_history(Store, messages, now)
       IN  /\ SetStore(found.store)
           /\ lastCall' = [op |-> "find", id |-> found.conv_id,
                           context |-> NoCtx]
    /\ UNCHANGED now
    /\ StoreFrame

\* one round of cleanup_loop: _cleanup_expired
CallCleanup ==
    /\ ExpiredIds(Store, now) # {}
    /\ LET S2 == cleanup_expired(Store, now)
       IN  /\ SetStore(S2)
           /\ lastCall' = [op |-> "cleanup", id |-> 0,
                           context |-> NoCtx]
    /\ UNCHANGED now
    /\ StoreFrame

\* time passes between two calls
StoreTick ==
    /\ now < MaxTime
    /\ now' = now + 1
    /\ UNCHANGED <<storeVars, lastCall, ncalls>>
    /\ UNCHANGED <<poolVars, lastSelect, tokenMeta, rq, shareTasks, nreq, lastOk, sp, sv, cb, px, sem, fc, hh, ft, rt, dc, ws>>

NextStore ==
    \/ \E token \in Tokens, id \in StoreIds : CallCreate(token, FirstTurn, id)
    \/ \E id \in StoreIds, messages \in {<<>>, SecondTurn},
          token \in Tokens \cup {None} :
           CallUpdate(id, messages, token)
    \/ \E id \in StoreIds : CallDelete(id)
    \/ \E id \in StoreIds : CallGet(id)
    \/ \E messages \in TwoTurns : CallFind(messages)
    \/ CallCleanup
    \/ StoreTick

SpecStore == Init /\ [][NextStore]_vars

(***************************************************************************)
(* The streaming request as a state machine.                               *)
(***************************************************************************)
\* chat.py:390-404 and 476-534: completions returns stream_wrapper() for a
\* request served with token T1
StreamOpen(show_think, cfg, conversation_id) ==
    /\ sp.pc # "streaming"
    /\ sp.n < MaxStreams
    /\ LET got == get_conversation(Store, conversation_id, now)
       IN  /\ SetStore(got.store)
           /\ sp' = [IdleStream EXCEPT
                       !.pc = "streaming", !.n = sp.n + 1, !.cfg = cfg,
                       !.p = NewProcessor(show_think), !.token = "T1",
                       !.openai_conv_id = IF conversation_id # 0
                                          THEN conversation_id
                                          ELSE NewId(sp.n + 1, 1),
                       !.context = got.context,
                       !.messages = IF got.context # NoCtx
                                    THEN SecondTurn ELSE FirstTurn]
    /\ UNCHANGED <<poolVars, lastSelect, tokenMeta, rq, shareTasks, now, nreq,
                   lastOk, lastCall, ncalls, sv, cb, px, sem, fc, hh, ft, rt, dc, ws>>

\* chat.py:522-532, stream_wrapper: the loop has ended without an exception;
\* wrap_stream_with_usage has called consume, and the finally block runs
\* _update_conversation_from_processor (chat.py:481-520)
stream_wrapper_end(s) ==
    LET grok_conv_id == IF s.p.grok_conversation_id # 0
                        THEN s.p.grok_conversation_id
                        ELSE IF s.context # NoCtx
                        THEN s.context.conversation_id ELSE 0
        grok_resp_id == s.p.response_id
        stored == grok_conv_id # 0 /\ grok_resp_id # 0
    IN  /\ SetStore(StoreExchange(Store, s, grok_conv_id, grok_resp_id, now))
        /\ SetManager(consume(Manager, s.token, effort))
        /\ shareTasks' = IF stored
                         THEN shareTasks \cup
                              {[id |-> s.openai_conv_id, resp |-> grok_resp_id,
                                conv |-> grok_conv_id, token |-> s.token]}
                         ELSE shareTasks

\* The client iterates stream_wrapper once more: one __anext__ of the
\* wrapper, the loop body or an except clause of process(), and what
\* stream_wrapper does when process() ends.
StreamNext(lag, delay, event, line) ==
    /\ sp.pc = "streaming"
    /\ event = "item" => sp.nlines < MaxLines
    /\ LET got == anext(sp.cfg, sp.w, lag, delay, event)
           s1 == [sp EXCEPT !.w = got.w, !.raised = got.raised]
       IN  IF got.raised = "item"
           THEN /\ sp' = [s1 EXCEPT !.p = process_line(sp.p, line),
                                    !.nlines = @ + 1,
                                    !.parsed = @ \/ line.parse = "ok"]
                /\ UNCHANGED <<poolVars, tokenMeta, storeVars, shareTasks>>
           ELSE IF got.raised = "StopAsyncIteration"
           THEN /\ sp' = [s1 EXCEPT !.p = process_end(sp.p), !.pc = "done",
                                    !.success = TRUE]
                /\ stream_wrapper_end(s1)
           ELSE IF got.raised = "CancelledError"
           THEN /\ sp' = [s1 EXCEPT !.pc = "done", !.success = TRUE]
                /\ stream_wrapper_end(s1)
           ELSE /\ sp' = [s1 EXCEPT !.pc = "error",
                                    !.error = except_clause(got.raised)]
                /\ UNCHANGED <<poolVars, tokenMeta, storeVars, shareTasks>>
    /\ UNCHANGED <<lastSelect, rq, now, nreq, lastOk, lastCall, ncalls, sv, cb, px, sem, fc, hh, ft, rt, dc, ws>>

NextStream ==
    \/ \E show_think \in BOOLEAN, first_timeout \in {0, FirstTimeout},
          idle_timeout \in {0, IdleTimeout}, total_timeout \in {0, TotalTimeout},
          conversation_id \in {0} \cup DOMAIN conversations :
           StreamOpen(show_think,
                      Timeouts(first_timeout, idle_timeout, total_timeout),
                      conversation_id)
    \/ \E lag \in 0 .. MaxLag, delay \in 0 .. MaxDelay, line \in Lines(sp.n) :
           StreamNext(lag, delay, "item", line)
    \/ \E lag \in 0 .. MaxLag, delay \in 0 .. MaxDelay,
          event \in {"StopAsyncIteration", "CancelledError", "RequestsError"} :
           StreamNext(lag, delay, event, BlankLine)

SpecStream == Init /\ [][NextStream]_vars

(***************************************************************************)
(* The writer as a state machine: mutations, the tasks, shutdown.          *)
(***************************************************************************)
SaveFrame ==
    /\ UNCHANGED <<poolVars, lastSelect, tokenMeta, rq, shareTasks, now, nreq,
                   lastOk, lastCall, ncalls, sp, cb, px, sem, fc, hh, ft, rt, dc, ws>>

\* a mutation of the store: create_conversation, with its _schedule_save()
SaveMutate ==
    /\ sv.nmut < MaxMut
    /\ SetStore(create_conversation(Store, "T1", NewId(sv.nmut + 1, 9),
                                    NewId(sv.nmut + 1, 8), FirstTurn,
                                    sv.nmut + 1, now))
    /\ sv' = schedule_save([sv EXCEPT !.nmut = @ + 1,
                                      !.during = @ \/ sv.lock # 0])
    /\ SaveFrame

\* conversation.save_delay_ms is changed in the configuration
SaveConfigure(delay) ==
    /\ delay # sv.config
    /\ sv' = [sv EXCEPT !.config = delay]
    /\ UNCHANGED storeVars
    /\ SaveFrame

\* the event loop runs task i until it suspends or ends
TaskStep(i) ==
    /\ i \in DOMAIN sv.tasks
    /\ task_enabled(sv, i)
    /\ sv' = task_step(sv, i, conversations)
    /\ UNCHANGED storeVars
    /\ SaveFrame

\* shutdown() is called
Shutdown ==
    /\ sv.shutdown.pc = "idle"
    /\ sv' = shutdown_call(sv, conversations)
    /\ UNCHANGED storeVars
    /\ SaveFrame

\* the caller of shutdown() goes on
ShutdownStep ==
    /\ shutdown_enabled(sv)
    /\ sv' = shutdown_step(sv, conversations)
    /\ UNCHANGED storeVars
    /\ SaveFrame

NextSave ==
    \/ SaveMutate
    \/ \E delay \in {0, SaveDelay} : SaveConfigure(delay)
    \/ \E i \in 1 .. MaxMut : TaskStep(i)
    \/ Shutdown
    \/ ShutdownStep

SpecSave == Init /\ [][NextSave]_vars

\* the event loop runs every task that can run, and the caller of shutdown()
FairSpecSave ==
    /\ SpecSave
    /\ \A i \in 1 .. MaxMut : WF_vars(TaskStep(i))
    /\ WF_vars(ShutdownStep)

(***************************************************************************)
(* The circuit breaker as a state machine: concurrent calls and the clock. *)
(***************************************************************************)
BreakerFrame ==
    /\ UNCHANGED <<poolVars, storeVars, lastSelect, tokenMeta, rq, shareTasks,
                   now, nreq, lastOk, lastCall, ncalls, sp, sv, px, sem, fc, hh, ft, rt, dc, ws>>

\* a caller enters CircuitBreaker.call
BreakerCall ==
    /\ Len(cb.calls) < MaxBreakerCalls
    /\ cb' = breaker_call(cb)
    /\ BreakerFrame

\* the wrapped function of call i ends, and the breaker records the outcome
BreakerComplete(i, outcome) ==
    /\ i \in DOMAIN cb.calls
    /\ cb.calls[i].status = "flying"
    /\ cb' = breaker_complete(cb, i, outcome)
    /\ BreakerFrame

\* time.monotonic() advances
BreakerTick ==
    /\ cb.clock < MaxClock
    /\ cb' = [cb EXCEPT !.clock = @ + 1]
    /\ BreakerFrame

\* get_circuit_breaker(name, config) builds the breaker with a configuration
BreakerConfigure(config) ==
    /\ cb = NewBreaker
    /\ config # cb.config
    /\ cb' = [cb EXCEPT !.config = config]
    /\ BreakerFrame

NextBreaker ==
    \/ BreakerCall
    \/ \E i \in 1 .. MaxBreakerCalls, outcome \in {"ok", "error", "timeout"} :
           BreakerComplete(i, outcome)
    \/ BreakerTick

SpecBreaker == Init /\ [][NextBreaker]_vars

\* SpecBreakerConfig: the same with a breaker of any configuration
NextBreakerConfig ==
    \/ \E config \in BreakerConfigs : BreakerConfigure(config)
    \/ BreakerCall
    \/ \E i \in 1 .. MaxBreakerCalls, outcome \in {"ok", "error", "timeout"} :
           BreakerComplete(i, outcome)
    \/ BreakerTick

SpecBreakerConfig == Init /\ [][NextBreakerConfig]_vars

(***************************************************************************)
(* The proxy pool as a state machine.                                      *)
(***************************************************************************)
ProxyFrame ==
    /\ UNCHANGED <<poolVars, storeVars, lastSelect, tokenMeta, rq, shareTasks,
                   now, nreq, lastOk, lastCall, ncalls, sp, sv, cb, sem, fc, hh, ft, rt, dc, ws>>

\* the proxy settings are changed
ProxyConfigure(config) ==
    /\ config # px.config
    /\ px' = [px EXCEPT !.config = config]
    /\ ProxyFrame

\* a caller asks for a proxy
ProxyGet(for_asset, fetch) ==
    /\ px' = get_proxy(px, for_asset, fetch)
    /\ ProxyFrame

\* time.monotonic() advances
ProxyTick ==
    /\ px.clock < MaxClock
    /\ px' = [px EXCEPT !.clock = @ + 1]
    /\ ProxyFrame

NextProxy ==
    \/ \E config \in ProxyConfigs : ProxyConfigure(config)
    \/ \E for_asset \in BOOLEAN, fetch \in Fetches : ProxyGet(for_asset, fetch)
    \/ ProxyTick

SpecProxy == Init /\ [][NextProxy]_vars

(***************************************************************************)
(* The chat semaphore as a state machine.                                  *)
(***************************************************************************)
SemFrame ==
    /\ UNCHANGED <<poolVars, storeVars, lastSelect, tokenMeta, rq, shareTasks,
                   now, nreq, lastOk, lastCall, ncalls, sp, sv, cb, px, fc, hh, ft, rt, dc, ws>>

\* chat.concurrent is changed in the configuration
SemConfigure(value) ==
    /\ value # sem.config
    /\ sem' = [sem EXCEPT !.config = value,
                           !.highest = IF value > @ THEN value ELSE @]
    /\ SemFrame

\* a request starts _stream()
StreamEnter ==
    /\ Len(sem.streams) < MaxSemStreams
    /\ sem' = stream_enter(sem)
    /\ SemFrame

\* a waiting _stream() is woken with a permit of its semaphore
StreamWake(i) ==
    /\ i \in DOMAIN sem.streams
    /\ sem.streams[i].pc = "waiting"
    /\ sem.permits[sem.streams[i].sem] > 0
    /\ sem' = sem_acquire(sem, i, sem.streams[i].sem)
    /\ SemFrame

\* the upstream call of a _stream() ends and the "async with" is left
StreamLeave(i) ==
    /\ i \in DOMAIN sem.streams
    /\ sem.streams[i].pc = "inside"
    /\ sem' = stream_leave(sem, i)
    /\ SemFrame

NextSem ==
    \/ \E value \in Concurrents : SemConfigure(value)
    \/ StreamEnter
    \/ \E i \in 1 .. MaxSemStreams : StreamWake(i)
    \/ \E i \in 1 .. MaxSemStreams : StreamLeave(i)

SpecSem == Init /\ [][NextSem]_vars

(***************************************************************************)
(* The tool card filter fed with the chunks of one answer.                 *)
(***************************************************************************)
CardFrame ==
    /\ UNCHANGED <<poolVars, storeVars, lastSelect, tokenMeta, rq, shareTasks,
                   now, nreq, lastOk, lastCall, ncalls, sp, sv, cb, px, sem, hh, ft, rt, dc, ws>>

\* a new StreamProcessor for an answer; the same answer goes through a
\* processor of its own as one token
CardOpen(text) ==
    /\ fc.pos = Len(fc.text)
    /\ fc.text # text
    /\ fc' = [NoCards EXCEPT !.text = text,
                             !.whole = filter_tool_card(NewCardFilter, text).out]
    /\ CardFrame

\* the next k pieces of the answer arrive as one token
CardFeed(k) ==
    /\ fc.pos + k <= Len(fc.text)
    /\ LET r == filter_tool_card(fc.f, SubSeq(fc.text, fc.pos + 1, fc.pos + k))
       IN  fc' = [fc EXCEPT !.pos = @ + k, !.cuts = @ \cup {fc.pos + k}, !.f = r.f,
                            !.out = @ \o r.out]
    /\ CardFrame

NextCard ==
    \/ \E text \in CardTexts : CardOpen(text)
    \/ \E k \in 1 .. MaxChunk : CardFeed(k)

SpecCard == Init /\ [][NextCard]_vars

(***************************************************************************)
(* compute_history_hash applied to a message list.                         *)
(***************************************************************************)
\* a message is added to the list, and compute_history_hash is called on
\* the list with and without exclude_last_user
HashCall(msg) ==
    /\ Len(hh.messages) < MaxMsgs
    /\ hh' = HashOf(Append(hh.messages, msg))
    /\ UNCHANGED <<poolVars, storeVars, lastSelect, tokenMeta, rq, shareTasks,
                   now, nreq, lastOk, lastCall, ncalls, sp, sv, cb, px, sem, fc, ft, rt, dc, ws>>

NextHash == \E msg \in HashMsgs : HashCall(msg)

SpecHash == Init /\ [][NextHash]_vars

(***************************************************************************)
(* _filter_token applied twice.                                            *)
(***************************************************************************)
FilterFrame ==
    /\ UNCHANGED <<poolVars, storeVars, lastSelect, tokenMeta, rq, shareTasks,
                   now, nreq, lastOk, lastCall, ncalls, sp, sv, cb, px, sem, fc, hh, rt, dc, ws>>

\* app.filter_tags is set, for the empty text
FilterConfigure(filter_tags) ==
    /\ ft.x = <<>>
    /\ filter_tags # ft.filter_tags
    /\ ft' = Twice(filter_tags, <<>>)
    /\ FilterFrame

\* the token text is one piece longer, and is filtered twice
FilterCall(piece) ==
    /\ Len(ft.x) < MaxTokenLen
    /\ ft' = Twice(ft.filter_tags, Append(ft.x, piece))
    /\ FilterFrame

NextFilter ==
    \/ \E filter_tags \in FilterTags : FilterConfigure(filter_tags)
    \/ \E piece \in Pieces : FilterCall(piece)

SpecFilter == Init /\ [][NextFilter]_vars

(***************************************************************************)
(* retry_async as a state machine.                                         *)
(***************************************************************************)
RetryFrame ==
    /\ UNCHANGED <<poolVars, storeVars, lastSelect, tokenMeta, rq, shareTasks,
                   now, nreq, lastOk, lastCall, ncalls, sp, sv, cb, px, sem, fc, hh, ft, dc, ws>>

\* retry_async(func, config=RetryConfig(max_retry, retry_budget)) is called
RetryStart(max_retry, retry_budget) ==
    /\ rt.pc \in {"idle", "returned", "raised"}
    /\ RetryConfig(max_retry, retry_budget) # rt.ctx.config \/ rt.pc = "idle"
    /\ rt' = [IdleRetry EXCEPT
                !.pc = "loop",
                !.ctx = RetryContext(RetryConfig(max_retry, retry_budget))]
    /\ RetryFrame

\* one pass of the loop: func is awaited and answers with outcome
RetryPass(outcome) ==
    /\ rt.pc = "loop"
    /\ rt.ctx.attempt <= rt.ctx.config.max_retry
    /\ rt' \in retry_pass(rt, outcome)
    /\ RetryFrame

NextRetry ==
    \/ \E max_retry \in 0 .. MaxRetry, retry_budget \in RetryBudgets :
           RetryStart(max_retry, retry_budget)
    \/ \E outcome \in FuncOutcomes : RetryPass(outcome)

SpecRetry == Init /\ [][NextRetry]_vars

(***************************************************************************)
(* The cache as a state machine: set, get, delete and the clock.           *)
(***************************************************************************)
CacheFrame ==
    /\ UNCHANGED <<poolVars, storeVars, lastSelect, tokenMeta, rq, shareTasks,
                   now, nreq, lastOk, lastCall, ncalls, sp, sv, cb, px, sem, fc, hh, ft, rt, ws>>

CacheOp(c, op, key) == [c EXCEPT !.nops = @ + 1, !.last = [op |-> op, key |-> key]]

CacheSet(key, ttl) ==
    /\ dc.nops < MaxCacheOps
    /\ dc' = CacheOp(cache_set(dc, key, "v", ttl), "set", key)
    /\ CacheFrame

CacheGet(key) ==
    /\ dc.nops < MaxCacheOps
    /\ dc' = CacheOp(cache_get(dc, key), "get", key)
    /\ CacheFrame

CacheDelete(key) ==
    /\ dc.nops < MaxCacheOps
    /\ dc' = CacheOp(cache_delete(dc, key), "delete", key)
    /\ CacheFrame

\* time.time() advances
CacheTick ==
    /\ dc.clock < MaxClock
    /\ dc' = [dc EXCEPT !.clock = @ + 1]
    /\ CacheFrame

NextCache ==
    \/ \E key \in CacheKeys, ttl \in {0, 1} : CacheSet(key, ttl)
    \/ \E key \in CacheKeys : CacheGet(key)
    \/ \E key \in CacheKeys : CacheDelete(key)
    \/ CacheTick

SpecCache == Init /\ [][NextCache]_vars

(***************************************************************************)
(* The pool as a state machine: callers that acquire a connection for a    *)
(* key, use it, and give it back with release or remove under the same key.*)
(***************************************************************************)
WsFrame ==
    /\ UNCHANGED <<poolVars, storeVars, lastSelect, tokenMeta, rq, shareTasks,
                   now, nreq, lastOk, lastCall, ncalls, sp, sv, cb, px, sem, fc, hh, ft, rt, dc>>

\* a caller that holds no connection calls acquire(key, factory)
WsAcquire(caller, key) ==
    /\ ws.held[caller] = NoHold
    /\ ws.acquires < MaxAcquires
    /\ LET got == ws_acquire(ws, key)
       IN  ws' = [got.pool EXCEPT
                    !.held[caller] = IF got.result = 0 THEN NoHold
                                     ELSE [connection |-> got.result, key |-> key],
                    !.acquires = @ + 1]
    /\ WsFrame

\* the caller is done with its connection and calls release(key)
WsRelease(caller) ==
    /\ ws.held[caller] # NoHold
    /\ ws' = [ws_release(ws, ws.held[caller].key) EXCEPT
                !.held[caller] = NoHold]
    /\ WsFrame

\* the caller's connection has failed and it calls remove(key)
WsRemove(caller) ==
    /\ ws.held[caller] # NoHold
    /\ ws' = [ws_remove(ws, ws.held[caller].key) EXCEPT
                !.held[caller] = NoHold]
    /\ WsFrame

\* time.monotonic() advances
WsTick ==
    /\ ws.clock < MaxClock
    /\ ws' = [ws EXCEPT !.clock = @ + 1]
    /\ WsFrame

NextWsPool ==
    \/ \E caller \in Callers, key \in WsKeys : WsAcquire(caller, key)
    \/ \E caller \in Callers : WsRelease(caller)
    \/ \E caller \in Callers : WsRemove(caller)
    \/ WsTick

SpecWsPool == Init /\ [][NextWsPool]_vars
(***************************************************************************)
(* Claims about TokenPool.select, checked under SpecPool.                   *)
(***************************************************************************)
\* the stored tokens select is allowed to return for this exclude set
Eligible(exclude) ==
    {t \in DOMAIN tokens \ exclude :
        tokens[t].status = ACTIVE /\ tokens[t].quota > 0}

\* C7: after any sequence of add, remove and update_index, select(exclude)
\* returns None or a token stored in the pool whose status is ACTIVE, whose
\* quota is > 0 and which is not in exclude.
C7_SelectionCorrect ==
    (lastSelect.done /\ lastSelect.result # None) =>
        /\ lastSelect.result \in DOMAIN tokens
        /\ tokens[lastSelect.result].status = ACTIVE
        /\ tokens[lastSelect.result].quota > 0
        /\ lastSelect.result \notin lastSelect.exclude

\* C7 witness: select returned T2 while T1, ACTIVE with at least T2's quota,
\* was excluded by the caller
C7_Witness ==
    /\ lastSelect.done
    /\ lastSelect.result = "T2"
    /\ lastSelect.exclude = {"T1"}
    /\ "T1" \in DOMAIN tokens
    /\ tokens["T1"].status = ACTIVE
    /\ tokens["T1"].quota >= tokens["T2"].quota

\* C8 (as claimed): select returns a token of the largest quota among the
\* ACTIVE, quota > 0, non-excluded tokens of the pool, and None only when
\* there is no such token.
C8_SelectLargestQuota ==
    lastSelect.done =>
        IF Eligible(lastSelect.exclude) = {}
        THEN lastSelect.result = None
        ELSE /\ lastSelect.result \in Eligible(lastSelect.exclude)
             /\ \A t \in Eligible(lastSelect.exclude) :
                    tokens[t].quota <= tokens[lastSelect.result].quota

\* C9 (as claimed): an ACTIVE token with quota -1 that is not excluded keeps
\* select from returning None.
C9_UnknownQuotaSelectable ==
    (/\ lastSelect.done
     /\ \E t \in DOMAIN tokens \ lastSelect.exclude :
            tokens[t].status = ACTIVE /\ tokens[t].quota = -1)
    => lastSelect.result # None


(***************************************************************************)
(* Claims about the retry loop of ChatService.completions, checked under    *)
(* Spec.                                                                    *)
(***************************************************************************)
\* C1 (as claimed): when the chat call made with a token is answered 429,
\* another ACTIVE token with quota has not been tried and the loop has a
\* round left, the token is given the 429 cooldown and a further attempt is
\* made with another token, for streaming and for non-streaming requests.
C1_RotationOn429 ==
    \A i \in DOMAIN rq.attempts :
        (/\ rq.pc = "done"
         /\ rq.attempts[i].phase = "chat"
         /\ rq.attempts[i].answer = 429
         /\ rq.attempts[i].other_token
         /\ i < max_token_retries)
        => /\ rq.attempts[i].token \in rq.cooled
           /\ i < Len(rq.attempts)
           /\ rq.attempts[i + 1].token # rq.attempts[i].token

C3_ExhaustedPinnedNotCalled ==
    rq.pinned_exhausted # None =>
        \A i \in DOMAIN rq.attempts :
            rq.attempts[i].phase = "chat" =>
                rq.attempts[i].token # rq.pinned_exhausted

\* C4: the step in which clone_share_link returns (C2, R2) for a context with
\* a share link leaves the context stored under the same gateway id with
\* conversation_id = C2, last_response_id = R2 and token = the new token,
\* its message_count, share_link_id, history_hash and created_at unchanged.
C4_MigrationFrame ==
    [][ (/\ rq.pc = "clone"
         /\ rq'.pc = "issue"
         /\ rq'.cloned.ok
         /\ rq.openai_conv_id \in DOMAIN conversations
         /\ rq.openai_conv_id \in DOMAIN conversations')
        => LET old == conversations[rq.openai_conv_id]
               new == conversations'[rq.openai_conv_id]
           IN  /\ new.conversation_id = rq'.cloned.conv
               /\ new.last_response_id = rq'.cloned.resp
               /\ new.token = rq.token
               /\ new.message_count = old.message_count
               /\ new.share_link_id = old.share_link_id
               /\ new.history_hash = old.history_hash
               /\ new.created_at = old.created_at ]_vars

\* C4 witness: clone_share_link has just returned ids for a context that was
\* bound to the other token, and the stored context carries them
C4_Witness ==
    /\ rq.pc = "issue"
    /\ rq.cloned.ok
    /\ rq.openai_conv_id \in DOMAIN conversations
    /\ conversations[rq.openai_conv_id].conversation_id = rq.cloned.conv
    /\ conversations[rq.openai_conv_id].token = rq.token
    /\ conversations[rq.openai_conv_id].share_link_id # 0
    /\ conversations[rq.openai_conv_id].message_count >= 1

\* C10 (as claimed): an attempt answered 401 or 403 is the last attempt of
\* its request, its token is given no cooldown, and the error is what the
\* caller receives.
C10_AuthErrorSurfaced ==
    \A i \in DOMAIN rq.attempts :
        (rq.pc = "done" /\ rq.attempts[i].answer \in {401, 403})
        => /\ i = Len(rq.attempts)
           /\ rq.attempts[i].token \notin rq.cooled
           /\ rq.result.kind = "error"
           /\ rq.result.error.status = rq.attempts[i].answer

(***************************************************************************)
(* Claims about conversation continuity, checked under SpecTurns.           *)
(***************************************************************************)
\* C5 (as claimed): a request without explicit id whose messages are those of
\* the last stored exchange followed by an assistant reply and a new user
\* turn, arriving while that exchange's context X is within its TTL, resolves
\* to X, and its chat call carries parent_response_id = X.last_response_id.
C5_MultiTurnContinuity ==
    rq.follows.is =>
        /\ rq.resolved_id = rq.follows.id
        /\ \A i \in DOMAIN rq.attempts :
               rq.attempts[i].phase = "chat" =>
                   /\ rq.attempts[i].parent_response_id # 0
                   /\ rq.attempts[i].parent_response_id = rq.attempts[i].x_last

\* C6 (as claimed): two successive requests without explicit id that carry
\* the same list of at least two messages resolve to the same gateway id,
\* whatever the outcome of the first.
C6_AutoResumeIdempotence ==
    (/\ rq.pc # "idle"
     /\ rq.prev.is
     /\ rq.prev.explicit = 0
     /\ rq.explicit = 0
     /\ rq.messages = rq.prev.messages
     /\ Len(rq.messages) >= 2)
    => rq.resolved_id = rq.prev.resolved_id


(***************************************************************************)
(* Claims about the end of the retry loop, checked under Spec.              *)
(***************************************************************************)
\* the loop has ended without a token to go on with: pick_token returned
\* None, or max_retry rounds have failed
Exhausted ==
    rq.pc = "done" /\ rq.result.kind = "error" /\ rq.result.token = None

C15_ShareWriteBackFrame ==
    [][\A task \in shareTasks :
           (ShareReturn(task, TRUE) /\ task.id \in DOMAIN conversations) =>
               LET old == conversations[task.id]
                   new == conversations'[task.id]
               IN  /\ new.share_link_id = task.resp + 2
                   /\ new.message_count = old.message_count
                   /\ new.last_response_id = old.last_response_id
                   /\ new.conversation_id = old.conversation_id]_vars

\* C35: when the upstream fails while a non-streaming request's response is
\* collected, the request does not end as a success: its error is raised
\* out of the attempt (retried or surfaced) and consume is not called for
\* the token.
C35_CollectFailureNotSuccess ==
    [][(/\ rq.pc = "chat"
        /\ ~rq.stream
        /\ rq'.attempts[Len(rq'.attempts)].phase = "chat"
        /\ rq'.attempts[Len(rq'.attempts)].answer # 200)
           => /\ rq'.result.kind \notin {"ok", "empty"}
              /\ tokens' = tokens]_vars

(***************************************************************************)
(* Claims about the ConversationManager, checked under SpecStore.          *)
(***************************************************************************)
\* C12: hash_to_conversation is one-to-one with the stored contexts: every
\* stored context with a non-empty history hash h has hash_to_conversation[h]
\* equal to its gateway id, and every entry h -> c refers to a stored context
\* c whose history_hash is h.
C12_HashIndexOneToOne ==
    /\ \A c \in DOMAIN conversations :
           conversations[c].history_hash # <<>> =>
               /\ conversations[c].history_hash \in DOMAIN hash_to_conversation
               /\ hash_to_conversation[conversations[c].history_hash] = c
    /\ \A h \in DOMAIN hash_to_conversation :
           /\ hash_to_conversation[h] \in DOMAIN conversations
           /\ conversations[hash_to_conversation[h]].history_hash = h

\* the stored contexts bound to a token
Owned(token) == {c \in DOMAIN conversations : conversations[c].token = token}

\* C13: after every operation of the ConversationManager (create, update,
\* also one that re-binds a context to another token, delete), no token has
\* more than max_per_token stored contexts bound to it.
C13_PerTokenCap ==
    \A token \in Tokens : Cardinality(Owned(token)) <= max_per_token

\* C14: get_conversation never returns a context whose age is over the TTL;
\* the read of such a context returns None and removes it from the primary
\* store, from hash_to_conversation and from the list of its token in
\* token_conversations.
C14_ExpiredReadRemoved ==
    [][\A id \in StoreIds :
           CallGet(id) =>
               /\ lastCall'.context # NoCtx => ~Expired(lastCall'.context, now)
               /\ (id \in DOMAIN conversations /\ Expired(conversations[id], now)) =>
                      /\ lastCall'.context = NoCtx
                      /\ id \notin DOMAIN conversations'
                      /\ \A h \in DOMAIN hash_to_conversation' :
                             hash_to_conversation'[h] # id
                      /\ id \notin Range(token_conversations'[conversations[id].token])]_vars

\* C36: every id listed under a token in token_conversations is a stored
\* context of that token, and every stored context is listed exactly once
\* under its own token.
C36_TokenIndexConsistent ==
    /\ \A t \in DOMAIN token_conversations :
         \A i \in DOMAIN token_conversations[t] :
            /\ token_conversations[t][i] \in DOMAIN conversations
            /\ conversations[token_conversations[t][i]].token = t
    /\ \A c \in DOMAIN conversations :
         /\ conversations[c].token \in DOMAIN token_conversations
         /\ Cardinality({i \in DOMAIN token_conversations[conversations[c].token] :
                           token_conversations[conversations[c].token][i] = c}) = 1

(***************************************************************************)
(* Claims about the streaming pipeline, checked under SpecStream.          *)
(***************************************************************************)
\* the frames the client has received
Out == sp.p.out

\* the upstream line stream has ended normally
EndedNormally == sp.pc = "done" /\ sp.raised = "StopAsyncIteration"

FramesOfKind(kind) == {i \in DOMAIN Out : Out[i].kind = kind}

\* C16 (as claimed): for every upstream line stream that ends normally, also
\* one without a parseable line, the emitted frames start with exactly one
\* role chunk and end with exactly one finish_reason "stop" chunk followed by
\* data: [DONE].
C16_StreamFraming ==
    EndedNormally =>
        /\ Len(Out) >= 3
        /\ FramesOfKind("role") = {1}
        /\ FramesOfKind("finish") = {Len(Out) - 1}
        /\ FramesOfKind("done") = {Len(Out)}

\* C16 (amended): for every upstream line stream that ends normally, the
\* emitted frames end with exactly one finish_reason "stop" chunk followed by
\* data: [DONE]; they start with exactly one role chunk when at least one
\* line was parsed, and contain no role chunk otherwise.
C16_FramingAfterParsedLine ==
    EndedNormally =>
        /\ Len(Out) >= 2
        /\ FramesOfKind("role") = IF sp.parsed THEN {1} ELSE {}
        /\ FramesOfKind("finish") = {Len(Out) - 1}
        /\ FramesOfKind("done") = {Len(Out)}

\* C16 witness: a stream of an unparseable line and two parsed lines has
\* ended normally, with one role chunk in front of the content
C16_Witness ==
    /\ EndedNormally
    /\ sp.nlines = 3
    /\ sp.parsed
    /\ Len(Out) = 5
    /\ Out[1] = RoleFrame
    /\ Out[2].kind = "content" /\ Out[3].kind = "content"

\* the <think> openers and the </think> closers among the first k frames
Openers(k) == {i \in 1 .. k : Out[i] = ThinkOpen}
Closers(k) == {i \in 1 .. k : Out[i] \in {ThinkClose, ThinkCloseAtEnd}}

ReachedDone == sp.pc = "done" /\ Out # <<>> /\ Out[Len(Out)] = DoneFrame

\* C17: in every emitted stream that reaches [DONE], whatever the upstream
\* lines and show_think are, there are as many <think> openers as </think>
\* closers and every closer is preceded by an opener not yet closed.
C17_ThinkBalance ==
    ReachedDone =>
        /\ Cardinality(Openers(Len(Out))) = Cardinality(Closers(Len(Out)))
        /\ \A k \in DOMAIN Out :
               Cardinality(Closers(k)) <= Cardinality(Openers(k))

\* C17 witness: a stream has reached [DONE] with two think blocks, one closed
\* by a modelResponse and one closed at the end
C17_Witness ==
    /\ ReachedDone
    /\ Cardinality(Openers(Len(Out))) = 2
    /\ \E i, j \in DOMAIN Out : Out[i] = ThinkClose /\ Out[j] = ThinkCloseAtEnd

TimeoutType(raised) ==
    IF raised = "StreamFirstTimeoutError" THEN "stream_first_timeout"
    ELSE IF raised = "StreamIdleTimeoutError" THEN "stream_idle_timeout"
    ELSE "stream_total_timeout"

\* C19: the step of a streaming request in which a stream timeout (first,
\* idle or total) fires skips the success path (no context created or
\* updated, no share task, no consume) and ends the request with a 504
\* upstream error of the type of the tier that fired.
C19_TimeoutSkipsSuccess ==
    [][(sp.pc = "streaming" /\ sp'.raised \in TimeoutErrors) =>
           /\ UNCHANGED <<storeVars, shareTasks, poolVars, tokenMeta>>
           /\ sp'.pc = "error"
           /\ ~sp'.success
           /\ sp'.error = StreamError(504, TimeoutType(sp'.raised))]_vars

\* C19 witness: the total timeout has fired after lines that carried both
\* upstream ids; the request has ended with the 504 and nothing is stored
C19_Witness ==
    /\ sp.pc = "error"
    /\ sp.raised = "StreamTotalTimeoutError"
    /\ sp.error = StreamError(504, "stream_total_timeout")
    /\ sp.p.response_id # 0 /\ sp.p.grok_conversation_id # 0
    /\ sp.openai_conv_id \notin DOMAIN conversations
    /\ shareTasks = {}
    /\ tokens["T1"].quota = 1

\* C20: the step in which a streaming request is cancelled while process()
\* waits for the next upstream line closes the upstream iterator and skips
\* the success path (no consume, no context created or updated, no share
\* task).
C20_CancelSkipsSuccess ==
    [][(sp.pc = "streaming" /\ sp'.raised = "CancelledError") =>
           /\ sp'.w.closed
           /\ UNCHANGED <<storeVars, shareTasks, poolVars, tokenMeta>>]_vars

\* C33: a modelResponse line that arrives while a <think> block is open has
\* the block closed before its image markdown: every rendered image in the
\* output has as many closers as openers before it.
C33_ThinkClosedBeforeImage ==
    \A i \in DOMAIN Out :
        Out[i] = Frame("content", "rendered")
            => Cardinality(Openers(i)) = Cardinality(Closers(i))

\* the part of it that the code keeps: a block opened by image progress is
\* closed before the image
ImageThinkClosedBeforeImage ==
    \A i \in DOMAIN Out :
        (/\ Out[i] = Frame("content", "rendered")
         /\ i > 1
         /\ Out[i - 1] \in {Frame("content", "progress"), ThinkClose})
            => Cardinality(Openers(i)) = Cardinality(Closers(i))

\* C34: a timeout error of _with_stream_timeouts comes after aclose on the
\* upstream iterator and names the tier that expired: first only before any
\* line and after first_timeout, idle only after a line and after
\* idle_timeout since the last line, total only after total_timeout since
\* the subscription.
C34_TimeoutTier ==
    sp.raised \in TimeoutErrors =>
        /\ sp.w.closed
        /\ sp.raised = "StreamFirstTimeoutError" =>
               /\ sp.w.is_first
               /\ sp.cfg.first_timeout > 0
               /\ sp.w.elapsed >= sp.cfg.first_timeout
        /\ sp.raised = "StreamIdleTimeoutError" =>
               /\ ~sp.w.is_first
               /\ sp.cfg.idle_timeout > 0
               /\ sp.w.since >= sp.cfg.idle_timeout
        /\ sp.raised = "StreamTotalTimeoutError" =>
               /\ sp.cfg.total_timeout > 0
               /\ sp.w.elapsed >= sp.cfg.total_timeout

\* the same with the idle tier allowed before the first line when
\* first_timeout is 0
TimeoutTierButFirstIdle ==
    sp.raised \in TimeoutErrors =>
        /\ sp.w.closed
        /\ sp.raised = "StreamFirstTimeoutError" =>
               /\ sp.w.is_first
               /\ sp.cfg.first_timeout > 0
               /\ sp.w.elapsed >= sp.cfg.first_timeout
        /\ sp.raised = "StreamIdleTimeoutError" =>
               /\ sp.w.is_first => sp.cfg.first_timeout = 0
               /\ sp.cfg.idle_timeout > 0
               /\ sp.w.since >= sp.cfg.idle_timeout
        /\ sp.raised = "StreamTotalTimeoutError" =>
               /\ sp.cfg.total_timeout > 0
               /\ sp.w.elapsed >= sp.cfg.total_timeout

(***************************************************************************)
(* Claims about the debounced writer (SpecSave, FairSpecSave).             *)
(***************************************************************************)
\* the tasks that have not ended
LiveTasks == {i \in DOMAIN sv.tasks : sv.tasks[i].pc # "done"}

\* every _schedule_save() so far has read a save delay above 0
DelayedOnly == sv.config > 0 /\ sv.delays \subseteq {SaveDelay}

\* every _schedule_save() so far has read a save delay of 0
ImmediateOnly == sv.config = 0 /\ sv.delays \subseteq {0}

\* C21: with a save delay above 0 at most one writer task exists at any
\* time, and the mutations of one sleep of save_delay cause at most one
\* write: the writes of the task never outnumber its completed sleeps.
C21_OneWritePerWindow ==
    DelayedOnly =>
        /\ Cardinality(LiveTasks) <= 1
        /\ sv.shutdown.pc = "idle" => sv.writes <= sv.sleeps

\* three mutations in one window, written by one write after one sleep
C21_Witness ==
    /\ DelayedOnly
    /\ sv.nmut = MaxMut
    /\ sv.sleeps = 1
    /\ sv.writes = 1
    /\ sv.disk.n = MaxMut

WrittenWhenDelayed ==
    \A k \in 1 .. MaxMut :
        (DelayedOnly /\ sv.nmut >= k) ~> (sv.disk.n >= k \/ ~DelayedOnly)

\* with a save delay of 0, the k-th mutation is eventually written
WrittenWhenImmediate ==
    \A k \in 1 .. MaxMut :
        (ImmediateOnly /\ sv.nmut >= k) ~> (sv.disk.n >= k \/ ~ImmediateOnly)

\* C23: every mutation is eventually written to storage, with no further
\* mutation and no shutdown needed, for a save delay above 0 and for a save
\* delay of 0, where the mutation may come while an immediate save is still
\* in progress.
C23_EventuallyWritten == WrittenWhenDelayed /\ WrittenWhenImmediate

(***************************************************************************)
(* Claims about the circuit breaker (SpecBreaker).                         *)
(***************************************************************************)
\* C24: a step leaves CLOSED for OPEN exactly when it completes a failure
\* that is the failure_threshold-th since the last completed success; a
\* success completed in CLOSED sets the failure count to 0; for every
\* interleaving of concurrent calls.
C24_OpensAtThreshold ==
    [][cb.state = "closed" =>
          /\ (cb'.state = "open") <=>
                 (cb'.streak = cb.streak + 1 /\ cb'.streak = failure_threshold)
          /\ cb'.state # "half_open"
          /\ cb'.total_successes > cb.total_successes => cb'.failure_count = 0]_vars

\* the breaker has opened from CLOSED for the first time, after a failure,
\* a success and two more failures
C24_Witness ==
    /\ cb.state = "open"
    /\ cb.period = 0
    /\ cb.total_successes = 1
    /\ cb.total_failures = failure_threshold + 1
    /\ cb.streak = failure_threshold

\* the calls admitted in HALF_OPEN period p, the one that began it included
Probes(p) ==
    {i \in DOMAIN cb.calls : /\ cb.calls[i].admitted = "half_open"
                             /\ cb.calls[i].period = p
                             /\ cb.calls[i].status # CircuitBreakerOpenError}

\* C25: in one HALF_OPEN period at most half_open_max_calls calls are
\* admitted in total, the call that moved the breaker from OPEN to HALF_OPEN
\* counted; the calls beyond are rejected with CircuitBreakerOpenError.
C25_HalfOpenAdmissionBound ==
    \A p \in 1 .. cb.period : Cardinality(Probes(p)) <= half_open_max_calls

\* C26: the breaker leaves HALF_OPEN for CLOSED only when success_threshold
\* calls admitted in that period have succeeded, and for OPEN only when a
\* call admitted in that period has failed; a call admitted while CLOSED
\* that completes in the period counts as neither.
C26_OnlyProbesDecide ==
    [][cb.state = "half_open" =>
          /\ cb'.state = "closed" =>
                 Cardinality({i \in Probes(cb.period) :
                                  cb'.calls[i].status = "ok"}) >= success_threshold
          /\ cb'.state = "open" =>
                 /\ cb'.last \in Probes(cb.period)
                 /\ cb'.calls[cb'.last].status \in {"error", "timeout"}]_vars

\* no call is awaited
NoneFlying == \A i \in DOMAIN cb.calls : cb.calls[i].status # "flying"

\* C37: a breaker does not stay HALF_OPEN forever, whatever its
\* configuration: once every admitted call has completed, the breaker has
\* left HALF_OPEN or it admits further probes.
C37_HalfOpenNotStuck ==
    (cb.state = "half_open" /\ NoneFlying)
        => cb.half_open_calls < cb.config.half_open_max_calls

\* the same for the configurations in which the probes of one period can
\* reach the success threshold
HalfOpenNotStuckWhenReachable ==
    (/\ cb.state = "half_open"
     /\ NoneFlying
     /\ cb.config.success_threshold <= cb.config.half_open_max_calls + 1)
        => cb.half_open_calls < cb.config.half_open_max_calls

(***************************************************************************)
(* Claims about the proxy pool (SpecProxy).                                *)
(***************************************************************************)
\* C27: get_proxy(for_asset) returns the asset proxy when for_asset is set
\* and one is configured; otherwise, with a pool URL configured, the cached
\* dynamic proxy when there is one, after a refresh when the cache was empty
\* or older than pool_refresh_sec; otherwise the static base proxy, also for
\* for_asset with neither an asset proxy nor a pool URL configured.
C27_ProxyChoice ==
    LET g == px.last
    IN  g.result # "not called" =>
            IF g.for_asset /\ g.config.asset_proxy_url # ""
            THEN g.result = g.config.asset_proxy_url /\ ~g.fetched
            ELSE IF g.config.pool_url # ""
            THEN /\ (g.absent \/ g.age > pool_refresh_sec) => g.fetched
                 /\ g.cached # None => g.result = g.cached
            ELSE g.result = or(g.config.base_proxy_url, None)

\* C27 in every case but for_asset with neither an asset proxy nor a pool URL
ProxyChoiceElsewhere ==
    \/ /\ px.last.for_asset
       /\ px.last.config.asset_proxy_url = ""
       /\ px.last.config.pool_url = ""
    \/ C27_ProxyChoice

(***************************************************************************)
(* Claims about the chat semaphore (SpecSem).                              *)
(***************************************************************************)
\* the upstream chat calls in progress inside a chat semaphore
Inside == {i \in DOMAIN sem.streams : sem.streams[i].pc = "inside"}

\* C28: at every moment the number of upstream chat calls in progress inside
\* the chat semaphore is at most the configured chat.concurrent, for every
\* interleaving of requests and of changes of the configured value; stated
\* against the highest value configured so far, which calls admitted under
\* an earlier, higher value cannot exceed either.
C28_ConcurrencyBound == Cardinality(Inside) <= sem.highest

\* C28 for as long as chat.concurrent has kept one value
BoundWithOneSemaphore == Len(sem.permits) <= 1 => Cardinality(Inside) <= sem.CHAT_SEM_VALUE

(***************************************************************************)
(* Claims about the tool card filter (SpecCard).                           *)
(***************************************************************************)
\* the raw pieces of a card
Markup == {"S1", "S2", "b", "E1", "E2"}

\* C29: however an answer with a complete card span is split into chunks,
\* once all chunks are fed the concatenated outputs of _filter_token equal
\* the output for the unsplit answer, and no raw card markup was emitted.
C29_SplitInvariance ==
    /\ fc.pos = Len(fc.text) => fc.out = fc.whole
    /\ \A i \in DOMAIN fc.out : fc.out[i] \notin Markup

\* the places where a chunk ends inside the start tag or inside the end tag
TagCuts == {i \in fc.cuts : fc.text[i] \in {"S1", "E1"}}

\* the card follows text that does not end with a newline
TextBeforeCard ==
    \E i \in 1 .. Len(fc.text) - 1 : fc.text[i] = "a" /\ fc.text[i + 1] = "S1"

\* the same for the splits that cut no tag, of an answer whose card comes
\* first or after a newline
SplitOutsideTags ==
    (fc.pos = Len(fc.text) /\ TagCuts = {} /\ ~TextBeforeCard) => fc.out = fc.whole

(***************************************************************************)
(* Claims about compute_history_hash (SpecHash).                           *)
(***************************************************************************)
\* the place of the last user message of a list, 0 when there is none
LastUser(messages) ==
    IF \E i \in DOMAIN messages : messages[i].role = "user"
    THEN CHOOSE i \in DOMAIN messages :
             /\ messages[i].role = "user"
             /\ \A j \in DOMAIN messages : messages[j].role = "user" => j <= i
    ELSE 0

\* the list without its last user message
WithoutLastUser(messages) ==
    IF LastUser(messages) = 0 THEN messages
    ELSE SubSeq(messages, 1, LastUser(messages) - 1)
             \o SubSeq(messages, LastUser(messages) + 1, Len(messages))

\* the list is [system S, user U1, assistant A1, user U2]
FourMessages ==
    /\ Len(hh.messages) = 4
    /\ hh.messages[1].role = "system"
    /\ hh.messages[2].role = "user"
    /\ hh.messages[3].role = "assistant"
    /\ hh.messages[4].role = "user"

\* C30: the hash of [system S, user U1, assistant A1, user U2] with
\* exclude_last_user is the hash of [system S, user U1] without it; for
\* every list with an assistant message the hash with exclude_last_user is
\* the hash of the list without its last user message.
C30_ExcludeLastUser ==
    /\ FourMessages =>
           hh.excluding = compute_history_hash(SubSeq(hh.messages, 1, 2), FALSE)
    /\ (\E i \in DOMAIN hh.messages : hh.messages[i].role = "assistant") =>
           hh.excluding = compute_history_hash(WithoutLastUser(hh.messages), FALSE)

\* the two user messages differ, and the hash with exclude_last_user holds
\* the system message and the first user message
C30_Witness ==
    /\ FourMessages
    /\ hh.messages[2].content = "x"
    /\ hh.messages[4].content = "y"
    /\ hh.excluding = <<<<"system", hh.messages[1].content>>, <<"user", "x">>>>
    /\ hh.plain # hh.excluding

(***************************************************************************)
(* Claims about _filter_token (SpecFilter).                                *)
(***************************************************************************)
\* C31: for a processor with no card buffering in progress, before the
\* first call and before the second, _filter_token of the output of
\* _filter_token is that output.
C31_FilterIdempotent ==
    ~ft.f1.tool_usage_opened => ft.twice = ft.once

\* the same with the card tag not in the filter list
IdempotentWithoutCardTag ==
    "xai:tool_usage_card" \notin ft.filter_tags => ft.twice = ft.once

(***************************************************************************)
(* Claims about auto-resume (Spec).                                        *)
(***************************************************************************)
\* C32: a request with no conversation id whose messages hold no assistant
\* message is a new conversation: completions resolves it to no stored
\* context.
C32_NewConversationNotResumed ==
    [][(/\ nreq' = nreq + 1
        /\ rq'.explicit = 0
        /\ \A i \in DOMAIN rq'.messages : rq'.messages[i].role # "assistant")
           => rq'.context = NoCtx]_vars

(***************************************************************************)
(* Claims about retry_async (SpecRetry).                                   *)
(***************************************************************************)
\* every call of func so far has failed with a retryable status code
AlwaysRetryable ==
    \A i \in DOMAIN rt.calls :
        /\ rt.calls[i].kind = "error"
        /\ rt.calls[i].status \in rt.ctx.config.retry_codes

\* C38: with max_retry = n, a function that always fails with a retryable
\* status code and a budget that is not exhausted, retry_async raises after
\* exactly n + 1 calls.
C38_CallsBeforeRaise ==
    (/\ rt.pc = "raised"
     /\ AlwaysRetryable
     /\ rt.why # "budget"
     /\ rt.ctx.total_delay < rt.ctx.config.retry_budget)
        => Len(rt.calls) = rt.ctx.config.max_retry + 1

\* what the code does: n calls, and one call when n is 0
CallsBeforeRaiseAreMaxRetry ==
    (/\ rt.pc = "raised"
     /\ AlwaysRetryable
     /\ rt.why # "budget"
     /\ rt.ctx.total_delay < rt.ctx.config.retry_budget)
        => Len(rt.calls) = IF rt.ctx.config.max_retry = 0 THEN 1
                           ELSE rt.ctx.config.max_retry

(***************************************************************************)
(* Claims about the local cache of DistributedCache (SpecCache).           *)
(***************************************************************************)
\* C39: after any sequence of set, get and delete the local cache holds at
\* most local_cache_size entries, and _local_access_order lists exactly the
\* keys of the local cache, each once.
C39_LocalCacheBounded ==
    /\ Cardinality(DOMAIN dc.local_cache) <= local_cache_size
    /\ \A k \in CacheKeys :
         Cardinality({i \in DOMAIN dc.local_access_order :
                         dc.local_access_order[i] = k})
           = IF k \in DOMAIN dc.local_cache THEN 1 ELSE 0

\* what the code keeps: every key of the local cache is listed
CachedKeysListed ==
    \A k \in DOMAIN dc.local_cache : InList(dc.local_access_order, k)

(***************************************************************************)
(* Claims about WebSocketPool (SpecWsPool).                                *)
(***************************************************************************)
\* C40: a connection returned by acquire is in use by at most one caller at
\* a time: no two callers hold the same connection.
C40_OneHolder ==
    \A a, b \in Callers :
        (ws.held[a] # NoHold /\ ws.held[a].connection = ws.held[b].connection)
            => a = b

\* what the code keeps: a connection is handed out by reuse only when the
\* pool has it as idle
ReusedWasIdle ==
    [][\A c \in Callers, k \in WsKeys :
         (/\ ws.held[c] = NoHold
          /\ ws'.held[c] # NoHold
          /\ ws'.held[c].key = k
          /\ ws'.held[c].connection <= ws.made)
            => /\ k \in DOMAIN ws.pool
               /\ ws.pool[k].state = ConnectionState.IDLE
               /\ ws.pool[k].connection = ws'.held[c].connection]_vars
====
